---- MODULE Spec2Model ----
(***************************************************************************)
(* Product catalogue service: the reservation engine of ProductService     *)
(* (reserve / confirm_reserve / cancel_reserve), the product write path    *)
(* (create / update / delete), the attribute validator, the cart webhook   *)
(* client, and the services of categories and attribute definitions, over  *)
(* a transactional store.                                                  *)
(***************************************************************************)
EXTENDS Integers, Sequences, FiniteSets, TLC

\* ------------------------------------------------------------------ bounds
MaxItems == 2      \* longest request list that is enumerated
MaxQty == 2        \* largest quantity of a request item
MaxStock == 2      \* largest stock a create / update / cancel may produce
MaxAttrs == 2      \* largest attribute map given to the validator alone

\* The product ids a request may name; ids are handed out in this order.
ProductIds == {1, 2}
\* Category 1 exists, category 2 does not.
CategoryIds == {1, 2}

VARIABLES
    cart_service_url,  \* settings.CART_SERVICE_URL, fixed at start-up
    categories,        \* table categories: id -> row, for the stored rows
    attrdefs,          \* table attribute_definitions: a sequence of rows
    products,          \* table products: id -> row, for the stored rows
    next_id,           \* next value of the products.id sequence
    last,              \* the last finished sequential request and its outcome
    db0,               \* concurrent runs: the committed products at the start
    sess               \* concurrent runs: session -> state of its request

vars == <<cart_service_url, categories, attrdefs, products, next_id, last, db0, sess>>

\* --------------------------------------------------------------- utilities
Range(s) == {s[i] : i \in DOMAIN s}

RECURSIVE SumSeq(_)
SumSeq(s) == IF s = <<>> THEN 0 ELSE Head(s) + SumSeq(Tail(s))

SeqsUpTo(S, n) == UNION {[1..k -> S] : k \in 1..n}

\* The quantities of the entries of a list of (product_id, quantity) that name pid.
QtyOf(entries, pid) ==
    SumSeq([i \in 1..Len(entries) |->
              IF entries[i].product_id = pid THEN entries[i].quantity ELSE 0])

\* How many entries of a sequence equal x.
Count(s, x) == Cardinality({i \in DOMAIN s : s[i] = x})

\* ------------------------------------------------------- attribute values
\* A JSON value is modelled by its runtime shape.
ValueShapes == {"str", "int", "float", "bool", "list", "null"}

\* Python isinstance(value, cls): bool is a subclass of int.
IsInstance(shape, cls) ==
    \/ shape = cls
    \/ cls = "int" /\ shape = "bool"

\* str.lower() on the characters the model uses.
LowerChar(c) ==
    CASE c = "C" -> "c"
      [] c = "W" -> "w"
      [] c = "O" -> "o"
      [] c = "X" -> "x"
      [] c = "T" -> "t"
      [] c = "V" -> "v"
      [] c = "P" -> "p"
      [] OTHER -> c
Lower(s) == [i \in 1..Len(s) |-> LowerChar(s[i])]

\* str.upper() on the characters the model uses.
UpperChar(c) ==
    CASE c = "c" -> "C"
      [] c = "w" -> "W"
      [] c = "t" -> "T"
      [] c = "v" -> "V"
      [] c = "p" -> "P"
      [] OTHER -> c

\* str.strip(): leading and trailing blanks removed.
RECURSIVE StripLeft(_)
StripLeft(s) == IF s # <<>> /\ Head(s) = " " THEN StripLeft(Tail(s)) ELSE s
Reverse(s) == [i \in 1..Len(s) |-> s[Len(s) + 1 - i]]
Strip(s) == Reverse(StripLeft(Reverse(StripLeft(s))))

\* str.capitalize(): first character upper-cased, the others lower-cased.
Capitalize(s) ==
    [i \in 1..Len(s) |-> IF i = 1 THEN UpperChar(s[i]) ELSE LowerChar(s[i])]

\* utils.normalize_title: <<>> stands for the ValueError of a title that is
\* empty after strip(), <<title>> for the normalised title.
normalize_titleMutCapitalizeFirst(title) ==
    IF Strip(title) = <<>> THEN <<>> ELSE <<Strip(Capitalize(title))>>
normalize_title(title) ==
    LET stripped == Strip(title)
    IN  IF stripped = <<>> THEN <<>> ELSE <<Capitalize(stripped)>>

\* CategoryCreateSchema.normalize_title, the validator of the field title.
CategoryCreateSchema_normalize_title(v) ==
    LET v1 == Strip(v)
    IN  IF Len(v1) = 0 THEN <<>> ELSE <<Capitalize(v1)>>

Color == <<"C", "o", "l">>
Weight == <<"W", "t">>

\* _validate_attribute_type: TRUE when the value passes type_checks[expected_type].
TypeCheckOk(shape, expected_type) ==
    CASE expected_type = "string" -> IsInstance(shape, "str")
      [] expected_type = "number" -> IsInstance(shape, "int") \/ IsInstance(shape, "float")
      [] expected_type = "boolean" -> IsInstance(shape, "bool")
      [] expected_type = "array" -> IsInstance(shape, "list")
      [] expected_type = "enum" -> IsInstance(shape, "str")
      [] OTHER -> TRUE

\* AttributeRepository.get_all_from_category
get_all_from_category(defs, category_id) ==
    SelectSeq(defs, LAMBDA d : d.category_id = category_id)

\* The first loop of _validate_product_attributes: required definitions with no key.
RECURSIVE RequiredErrors(_, _, _)
RequiredErrors(definitions, attributes, i) ==
    IF i > Len(definitions) THEN <<>>
    ELSE LET attr_def == definitions[i]
             found == \E k \in 1..Len(attributes) :
                         Lower(attributes[k].key) = Lower(attr_def.title)
             rest == RequiredErrors(definitions, attributes, i + 1)
         IN  IF attr_def.required /\ ~found
             THEN <<[field |-> attr_def.title, kind |-> "required"]>> \o rest
             ELSE rest

\* definitions_map.get(name.lower()): the last definition with that lower-cased title.
DefinitionFor(definitions, name) ==
    LET hits == {i \in 1..Len(definitions) : Lower(definitions[i].title) = Lower(name)}
    IN  IF hits = {} THEN <<>>
        ELSE <<definitions[CHOOSE i \in hits : \A j \in hits : j <= i]>>

\* The second loop of _validate_product_attributes: keys whose value has the wrong type.
RECURSIVE TypeErrors(_, _, _)
TypeErrors(definitions, attributes, k) ==
    IF k > Len(attributes) THEN <<>>
    ELSE LET attr == attributes[k]
             hit == DefinitionFor(definitions, attr.key)
             rest == TypeErrors(definitions, attributes, k + 1)
         IN  IF hit # <<>> /\ ~TypeCheckOk(attr.value, hit[1].type)
             THEN <<[field |-> attr.key, kind |-> "type"]>> \o rest
             ELSE rest

\* _validate_product_attributes: the errors it raises ValidationException with
\* (the empty list when it returns normally).
validate_product_attributesMutFirstOnly(defs, category_id, attributes) ==
    LET definitions == get_all_from_category(defs, category_id)
        errors == RequiredErrors(definitions, attributes, 1)
                      \o TypeErrors(definitions, attributes, 1)
    IN  IF errors = <<>> THEN <<>> ELSE <<Head(errors)>>
validate_product_attributes(defs, category_id, attributes) ==
    LET definitions == get_all_from_category(defs, category_id)
    IN  RequiredErrors(definitions, attributes, 1) \o TypeErrors(definitions, attributes, 1)

\* ------------------------------------------------------------ cart webhook
SendOutcomes == {"ok", "connect_error", "timeout", "http_error"}

\* CartWebhookClient._enabled
enabled(url) == url # ""

\* A call of the client: [event, product_id, payload].
Call(event, product_id, payload) ==
    [event |-> event, product_id |-> product_id, payload |-> payload]
PostEvent(call, outcome) ==
    [type |-> "post", event |-> call.event, product_id |-> call.product_id,
     payload |-> call.payload, outcome |-> outcome]
NotifyEvent(call) ==
    [type |-> "notify", event |-> call.event, product_id |-> call.product_id,
     payload |-> call.payload]

\* CartWebhookClient._send: the POST is made once; an exception of the POST or of
\* raise_for_status is caught and logged.  raised says whether _send lets an
\* exception out.
sendMutPropagates(call, outcome) ==
    [events |-> <<PostEvent(call, outcome)>>, raised |-> outcome # "ok"]
send(call, outcome) ==
    [events |-> <<PostEvent(call, outcome)>>, raised |-> FALSE]

\* notify_product_updated / notify_out_of_stock / notify_back_in_stock /
\* notify_product_deleted: nothing is sent when the webhook is disabled.
notify(url, call, outcome) ==
    IF ~enabled(url) THEN [events |-> <<NotifyEvent(call)>>, raised |-> FALSE]
    ELSE LET s == send(call, outcome)
         IN  [events |-> <<NotifyEvent(call)>> \o s.events, raised |-> s.raised]

\* The handler's loop of awaited notify calls: calls is the list of
\* (event, product_id) in call order; a call that raises ends the handler.
RECURSIVE notify_all(_, _, _, _)
notify_all(url, calls, outcomes, i) ==
    IF i > Len(calls) THEN [events |-> <<>>, raised |-> FALSE]
    ELSE LET n == notify(url, calls[i], outcomes[i])
         IN  IF n.raised THEN n
             ELSE LET rest == notify_all(url, calls, outcomes, i + 1)
                  IN  [events |-> n.events \o rest.events, raised |-> rest.raised]

\* ------------------------------------------------------ reservation engine
\* ReserveItemSchema (product_id > 0, quantity > 0), ReserveRequestSchema (min_length 1)
ReserveItems == [product_id : ProductIds, quantity : 1..MaxQty]
ReserveRequests == [items : SeqsUpTo(ReserveItems, MaxItems)]

NotFoundError(product_id) == [kind |-> "not_found", product_id |-> product_id]
InsufficientError(title, requested, available) ==
    [kind |-> "insufficient", title |-> title, requested |-> requested,
     available |-> available]

\* A raised exception that no handler catches: the generic 500 response.
InternalError == [status |-> 500]

\* One pass of the check loop of reserve.  view maps the ids of the rows the
\* session sees to the rows; acc holds errors and products_to_reserve.
reserve_check_itemMutStopEarly(view, item, acc) ==
    IF acc.errors # <<>> THEN acc
    ELSE IF item.product_id \notin DOMAIN view
    THEN [acc EXCEPT !.errors = Append(@, NotFoundError(item.product_id))]
    ELSE IF view[item.product_id].stock < item.quantity
    THEN [acc EXCEPT !.errors = Append(@, InsufficientError(
             view[item.product_id].title, item.quantity, view[item.product_id].stock))]
    ELSE [acc EXCEPT !.products_to_reserve = Append(@, item)]
reserve_check_item(view, item, acc) ==
    IF item.product_id \notin DOMAIN view
    THEN [acc EXCEPT !.errors = Append(@, NotFoundError(item.product_id))]
    ELSE IF view[item.product_id].stock < item.quantity
    THEN [acc EXCEPT !.errors = Append(@, InsufficientError(
             view[item.product_id].title, item.quantity, view[item.product_id].stock))]
    ELSE [acc EXCEPT !.products_to_reserve = Append(@, item)]

\* The check loop of reserve over data.items, from item i on.
RECURSIVE reserve_check(_, _, _, _)
reserve_check(view, items, i, acc) ==
    IF i > Len(items) THEN acc
    ELSE reserve_check(view, items, i + 1, reserve_check_item(view, items[i], acc))

\* "if errors: return ReserveResponseSchema(success=False, errors=errors)"
reserve_rejectsMutAllFailed(chk) == chk.products_to_reserve = <<>>
reserve_rejects(chk) == chk.errors # <<>>

\* The decrement loop of reserve: product.stock -= quantity on the session's
\* objects, one object per product id.
RECURSIVE reserve_applyMutByOne(_, _)
reserve_applyMutByOne(view, products_to_reserve) ==
    IF products_to_reserve = <<>> THEN view
    ELSE LET e == Head(products_to_reserve)
         IN  reserve_applyMutByOne([view EXCEPT ![e.product_id].stock = @ - 1],
                                   Tail(products_to_reserve))
RECURSIVE reserve_apply(_, _)
reserve_apply(view, products_to_reserve) ==
    IF products_to_reserve = <<>> THEN view
    ELSE LET e == Head(products_to_reserve)
         IN  reserve_apply([view EXCEPT ![e.product_id].stock = @ - e.quantity],
                           Tail(products_to_reserve))

\* The notification loop of reserve: one call for every entry of
\* products_to_reserve whose product object has stock 0.
reserve_calls(view, products_to_reserve) ==
    LET hit == SelectSeq(products_to_reserve,
                         LAMBDA e : view[e.product_id].stock = 0)
    IN  [i \in 1..Len(hit) |-> Call("out_of_stock", hit[i].product_id, <<>>)]

\* session.commit() and the calls that follow it: an exception of the commit
\* leaves the handler before any call is made.
commit_then_notifyMutNotifyFirst(url, calls, commit, outcomes) ==
    LET n == notify_all(url, calls, outcomes, 1)
    IN  [events |-> n.events \o <<[type |-> "commit", outcome |-> commit]>>,
         committed |-> commit = "ok",
         raised |-> n.raised \/ commit # "ok"]
commit_then_notify(url, calls, commit, outcomes) ==
    IF commit # "ok"
    THEN [events |-> <<[type |-> "commit", outcome |-> commit]>>,
          committed |-> FALSE, raised |-> TRUE]
    ELSE LET n == notify_all(url, calls, outcomes, 1)
         IN  [events |-> <<[type |-> "commit", outcome |-> commit]>> \o n.events,
              committed |-> TRUE, raised |-> n.raised]

\* ProductService.reserve run alone against the committed rows db.  The result
\* holds the committed rows afterwards, the response and the trace of the
\* commit, the notify calls and the POSTs.
reserve(url, db, data, commit, outcomes) ==
    LET chk == reserve_check(db, data.items, 1,
                             [errors |-> <<>>, products_to_reserve |-> <<>>])
    IN  IF reserve_rejects(chk)
        THEN [db |-> db,
              response |-> [status |-> 200, success |-> FALSE,
                            reserved_items |-> <<>>, errors |-> chk.errors],
              events |-> <<>>]
        ELSE LET after == reserve_apply(db, chk.products_to_reserve)
                 t == commit_then_notify(
                          url, reserve_calls(after, chk.products_to_reserve),
                          commit, outcomes)
             IN  [db |-> IF t.committed THEN after ELSE db,
                  response |-> IF t.raised THEN InternalError
                               ELSE [status |-> 200, success |-> TRUE,
                                     reserved_items |-> chk.products_to_reserve,
                                     errors |-> <<>>],
                  events |-> t.events]

\* ProductService.confirm_reserve
confirm_reserveMutDistinct(data) ==
    [status |-> "confirmed",
     items_count |-> Cardinality({data.items[i].product_id : i \in DOMAIN data.items})]
confirm_reserve(data) == [status |-> "confirmed", items_count |-> Len(data.items)]

\* One pass of the loop of cancel_reserve.  acc holds the session's rows (view),
\* restored, errors and was_out_of_stock.
cancel_itemMutBreak(item, acc) ==
    IF acc.errors # <<>> THEN acc
    ELSE IF item.product_id \notin DOMAIN acc.view
    THEN [acc EXCEPT !.errors = Append(@, NotFoundError(item.product_id))]
    ELSE [view |-> [acc.view EXCEPT ![item.product_id].stock = @ + item.quantity],
          restored |-> Append(acc.restored, item),
          errors |-> acc.errors,
          was_out_of_stock |->
              IF acc.view[item.product_id].stock = 0
              THEN Append(acc.was_out_of_stock, item.product_id)
              ELSE acc.was_out_of_stock]
cancel_itemMutAlways(item, acc) ==
    IF item.product_id \notin DOMAIN acc.view
    THEN [acc EXCEPT !.errors = Append(@, NotFoundError(item.product_id))]
    ELSE [view |-> [acc.view EXCEPT ![item.product_id].stock = @ + item.quantity],
          restored |-> Append(acc.restored, item),
          errors |-> acc.errors,
          was_out_of_stock |->
              IF acc.view[item.product_id].stock + item.quantity > 0
              THEN Append(acc.was_out_of_stock, item.product_id)
              ELSE acc.was_out_of_stock]
cancel_item(item, acc) ==
    IF item.product_id \notin DOMAIN acc.view
    THEN [acc EXCEPT !.errors = Append(@, NotFoundError(item.product_id))]
    ELSE [view |-> [acc.view EXCEPT ![item.product_id].stock = @ + item.quantity],
          restored |-> Append(acc.restored, item),
          errors |-> acc.errors,
          was_out_of_stock |->
              IF acc.view[item.product_id].stock = 0
              THEN Append(acc.was_out_of_stock, item.product_id)
              ELSE acc.was_out_of_stock]

\* The loop of cancel_reserve over data.items, from item i on.
RECURSIVE cancel_loop(_, _, _)
cancel_loop(items, i, acc) ==
    IF i > Len(items) THEN acc
    ELSE cancel_loop(items, i + 1, cancel_item(items[i], acc))

\* The notification loop of cancel_reserve.
cancel_calls(was_out_of_stock) ==
    [i \in 1..Len(was_out_of_stock) |-> Call("back_in_stock", was_out_of_stock[i], <<>>)]

\* ProductService.cancel_reserve run alone against the committed rows db.
cancel_reserve(url, db, data, commit, outcomes) ==
    LET acc == cancel_loop(data.items, 1,
                           [view |-> db, restored |-> <<>>, errors |-> <<>>,
                            was_out_of_stock |-> <<>>])
        t == commit_then_notify(url, cancel_calls(acc.was_out_of_stock), commit, outcomes)
    IN  [db |-> IF t.committed THEN acc.view ELSE db,
         response |-> IF t.raised THEN InternalError
                      ELSE [status |-> 200, success |-> Len(acc.errors) = 0,
                            reserved_items |-> acc.restored, errors |-> acc.errors],
         events |-> t.events]

\* ------------------------------------------------------- product write path
NotFound(what, id) == [status |-> 404, what |-> what, id |-> id]
ValidationError(errors) == [status |-> 422, errors |-> errors]
BadRequest == [status |-> 400]

\* ProductService.create run alone.  db is the committed products, cats the
\* stored category ids, defs the attribute definitions, id the next value of
\* the id sequence.  inserted says whether the INSERT was issued.
createMutNoRollback(db, cats, defs, id, data, commit) ==
    LET errors == IF data.attributes # <<>>
                  THEN validate_product_attributes(defs, data.category_id, data.attributes)
                  ELSE <<>>
    IN  IF data.category_id \notin cats
        THEN [db |-> db, inserted |-> FALSE, events |-> <<>>,
              response |-> NotFound("category", data.category_id)]
        ELSE IF errors # <<>>
        THEN [db |-> db, inserted |-> FALSE, events |-> <<>>,
              response |-> ValidationError(errors)]
        ELSE [db |-> (id :> data) @@ db, inserted |-> TRUE,
              events |-> <<[type |-> "commit", outcome |-> commit]>>,
              response |-> IF commit = "ok"
                           THEN [status |-> 201, id |-> id, product |-> data]
                           ELSE IF commit = "fk_violation"
                           THEN NotFound("category", data.category_id)
                           ELSE IF commit = "integrity_error" THEN BadRequest
                           ELSE InternalError]
create(db, cats, defs, id, data, commit) ==
    LET errors == IF data.attributes # <<>>
                  THEN validate_product_attributes(defs, data.category_id, data.attributes)
                  ELSE <<>>
    IN  IF data.category_id \notin cats
        THEN [db |-> db, inserted |-> FALSE, events |-> <<>>,
              response |-> NotFound("category", data.category_id)]
        ELSE IF errors # <<>>
        THEN [db |-> db, inserted |-> FALSE, events |-> <<>>,
              response |-> ValidationError(errors)]
        ELSE IF commit = "ok"
        THEN [db |-> (id :> data) @@ db, inserted |-> TRUE,
              events |-> <<[type |-> "commit", outcome |-> commit]>>,
              response |-> [status |-> 201, id |-> id, product |-> data]]
        ELSE [db |-> db, inserted |-> TRUE,
              events |-> <<[type |-> "commit", outcome |-> commit]>>,
              response |-> IF commit = "fk_violation"
                           THEN NotFound("category", data.category_id)
                           ELSE IF commit = "integrity_error" THEN BadRequest
                           ELSE InternalError]

\* A field of ProductUpdateSchema is <<>> when unset and <<value>> when set.
IsSet(field) == field # <<>>

\* ProductRepository.update: setattr for every field that is set.
repo_update(product, data) ==
    [title |-> IF IsSet(data.title) THEN data.title[1] ELSE product.title,
     price |-> IF IsSet(data.price) THEN data.price[1] ELSE product.price,
     category_id |-> IF IsSet(data.category_id) THEN data.category_id[1]
                     ELSE product.category_id,
     images |-> IF IsSet(data.images) THEN data.images[1] ELSE product.images,
     stock |-> IF IsSet(data.stock) THEN data.stock[1] ELSE product.stock,
     attributes |-> IF IsSet(data.attributes) THEN data.attributes[1]
                    ELSE product.attributes]

\* The webhook decisions of update, from the snapshot taken before the update
\* and the refreshed row.
update_callsMutExclusive(product_id, old, updated) ==
    IF updated.title # old.title \/ updated.price # old.price
       \/ updated.images # old.images
    THEN <<Call("product_updated", product_id,
                [title |-> updated.title, price |-> updated.price,
                 image_url |-> IF updated.images # <<>> THEN <<updated.images[1]>>
                               ELSE <<>>])>>
    ELSE IF updated.stock = 0 /\ old.stock > 0
    THEN <<Call("out_of_stock", product_id, <<>>)>>
    ELSE IF updated.stock > 0 /\ old.stock = 0
    THEN <<Call("back_in_stock", product_id, <<>>)>>
    ELSE <<>>
update_calls(product_id, old, updated) ==
    (IF updated.title # old.title \/ updated.price # old.price
        \/ updated.images # old.images
     THEN <<Call("product_updated", product_id,
                 [title |-> updated.title, price |-> updated.price,
                  image_url |-> IF updated.images # <<>> THEN <<updated.images[1]>>
                                ELSE <<>>])>>
     ELSE <<>>)
    \o (IF updated.stock = 0 /\ old.stock > 0
        THEN <<Call("out_of_stock", product_id, <<>>)>> ELSE <<>>)
    \o (IF updated.stock > 0 /\ old.stock = 0
        THEN <<Call("back_in_stock", product_id, <<>>)>> ELSE <<>>)

\* ProductService.update run alone.
update(url, db, cats, defs, product_id, data, commit, outcomes) ==
    IF product_id \notin DOMAIN db
    THEN [db |-> db, events |-> <<>>, response |-> NotFound("product", product_id)]
    ELSE
    LET product == db[product_id]
        target_category_id == IF IsSet(data.category_id) THEN data.category_id[1]
                              ELSE product.category_id
        errors == IF IsSet(data.attributes) /\ data.attributes[1] # <<>>
                  THEN validate_product_attributes(defs, target_category_id,
                                                   data.attributes[1])
                  ELSE <<>>
        updated == repo_update(product, data)
    IN  IF IsSet(data.category_id) /\ data.category_id[1] # product.category_id
           /\ data.category_id[1] \notin cats
        THEN [db |-> db, events |-> <<>>,
              response |-> NotFound("category", data.category_id[1])]
        ELSE IF errors # <<>>
        THEN [db |-> db, events |-> <<>>, response |-> ValidationError(errors)]
        ELSE LET t == commit_then_notify(url, update_calls(product_id, product, updated),
                                         commit, outcomes)
             IN  [db |-> IF t.committed THEN [db EXCEPT ![product_id] = updated] ELSE db,
                  events |-> t.events,
                  response |-> IF t.raised THEN InternalError
                               ELSE [status |-> 200, product |-> updated]]

\* ProductService.delete run alone.
deleteMutKeepsRow(url, db, product_id, commit, outcomes) ==
    IF product_id \notin DOMAIN db
    THEN [db |-> db, events |-> <<>>, response |-> NotFound("product", product_id)]
    ELSE LET t == commit_then_notify(url, <<Call("product_deleted", product_id, <<>>)>>,
                                     commit, outcomes)
         IN  [db |-> db, events |-> t.events,
              response |-> IF t.raised THEN InternalError ELSE [status |-> 204]]
delete(url, db, product_id, commit, outcomes) ==
    IF product_id \notin DOMAIN db
    THEN [db |-> db, events |-> <<>>, response |-> NotFound("product", product_id)]
    ELSE LET t == commit_then_notify(url, <<Call("product_deleted", product_id, <<>>)>>,
                                     commit, outcomes)
         IN  [db |-> IF t.committed
                     THEN [p \in DOMAIN db \ {product_id} |-> db[p]] ELSE db,
              events |-> t.events,
              response |-> IF t.raised THEN InternalError ELSE [status |-> 204]]

\* ------------------------------------------------------------- environment
CommitOutcomes == {"ok", "db_error"}

\* The outcomes of the POSTs of one request, in call order.
AllOk == [i \in 1..(MaxItems + 3) |-> "ok"]
Pad(outcomes) == [i \in 1..(MaxItems + 3) |->
                    IF i \in DOMAIN outcomes THEN outcomes[i] ELSE "ok"]
NotifyCount(events) == Cardinality({i \in DOMAIN events : events[i].type = "notify"})
PostOutcomes(url, events) ==
    [1..(IF enabled(url) THEN NotifyCount(events) ELSE 0) -> SendOutcomes]

\* The requests of the write path that are enumerated.  Titles arrive
\* normalised by the schema's validator.
Titles == {"Phone", "Tablet"}
Prices == {100}
ImageLists == {<<>>}
AttributeMaps == {<<[key |-> Color, value |-> "str"]>>,
                  <<[key |-> Color, value |-> "int"]>>}

ProductCreateInputs ==
    [title : Titles, price : Prices, category_id : CategoryIds, images : ImageLists,
     stock : 0..MaxStock, attributes : AttributeMaps]

Opt(S) == {<<>>} \cup {<<x>> : x \in S}
SetFields(data) == Cardinality({f \in DOMAIN data : IsSet(data[f])})
MaxUpdateFields == 2
ProductUpdateInputs ==
    {data \in [title : Opt(Titles), price : Opt(Prices), category_id : Opt(CategoryIds),
               images : Opt(ImageLists), stock : Opt(0..MaxStock),
               attributes : Opt(AttributeMaps)] :
        SetFields(data) <= MaxUpdateFields}

\* ------------------------------------------------------------ state machine
InitialProduct ==
    [title |-> "Phone", price |-> 100, category_id |-> 1, images |-> <<>>,
     stock |-> MaxStock, attributes |-> <<[key |-> Color, value |-> "str"]>>]

\* A category title is the list of its characters.
Tv == <<"T", "v">>
InitialCategories == (1 :> [title |-> Tv])

InitialDefinitions ==
    <<[id |-> 1, category_id |-> 1, title |-> Color, type |-> "string", required |-> TRUE],
      [id |-> 2, category_id |-> 1, title |-> Weight, type |-> "number", required |-> FALSE]>>

NoRequest == [op |-> "none", data |-> <<>>, before |-> <<>>, response |-> <<>>,
              events |-> <<>>]

Init ==
    /\ cart_service_url \in {"", "http://cart"}
    /\ categories = InitialCategories
    /\ attrdefs = InitialDefinitions
    /\ products = (1 :> InitialProduct)
    /\ next_id = 2
    /\ last = NoRequest
    /\ db0 = <<>>
    /\ sess = <<>>

StockWithinBound(db) == \A p \in DOMAIN db : db[p].stock <= MaxStock

\* A request is served once the previous response has been delivered.
Idle == last.op = "none"

Finish(op, data, r) ==
    /\ products' = r.db
    /\ last' = [op |-> op, data |-> data, before |-> products,
                response |-> r.response, events |-> r.events]

Reserve ==
    /\ Idle
    /\ \E data \in ReserveRequests, commit \in CommitOutcomes :
         \E outcomes \in PostOutcomes(cart_service_url,
                           reserve(cart_service_url, products, data, "ok", AllOk).events) :
           /\ Finish("reserve", data,
                     reserve(cart_service_url, products, data, commit, Pad(outcomes)))
           /\ UNCHANGED <<cart_service_url, categories, attrdefs, next_id, db0, sess>>

ConfirmReserve ==
    /\ Idle
    /\ \E data \in ReserveRequests :
           /\ Finish("confirm_reserve", data,
                     [db |-> products, response |-> confirm_reserve(data), events |-> <<>>])
           /\ UNCHANGED <<cart_service_url, categories, attrdefs, next_id, db0, sess>>

CancelReserve ==
    /\ Idle
    /\ \E data \in ReserveRequests, commit \in CommitOutcomes :
         \E outcomes \in PostOutcomes(cart_service_url,
                           cancel_reserve(cart_service_url, products, data, "ok", AllOk).events) :
           LET r == cancel_reserve(cart_service_url, products, data, commit, Pad(outcomes))
           IN  /\ StockWithinBound(r.db)
               /\ Finish("cancel_reserve", data, r)
               /\ UNCHANGED <<cart_service_url, categories, attrdefs, next_id, db0, sess>>

CreateProduct ==
    /\ Idle
    /\ next_id \in ProductIds
    /\ \E data \in ProductCreateInputs, commit \in CommitOutcomes :
           LET r == create(products, DOMAIN categories, attrdefs, next_id, data, commit)
           IN  /\ Finish("create", data, r)
               /\ next_id' = IF r.inserted THEN next_id + 1 ELSE next_id
               /\ UNCHANGED <<cart_service_url, categories, attrdefs, db0, sess>>

UpdateProduct ==
    /\ Idle
    /\ \E product_id \in ProductIds, data \in ProductUpdateInputs, commit \in CommitOutcomes :
         \E outcomes \in PostOutcomes(cart_service_url,
                           update(cart_service_url, products, DOMAIN categories, attrdefs,
                                  product_id, data, "ok", AllOk).events) :
           /\ Finish("update", [product_id |-> product_id, data |-> data],
                     update(cart_service_url, products, DOMAIN categories, attrdefs,
                            product_id, data, commit, Pad(outcomes)))
           /\ UNCHANGED <<cart_service_url, categories, attrdefs, next_id, db0, sess>>

DeleteProduct ==
    /\ Idle
    /\ \E product_id \in ProductIds, commit \in CommitOutcomes :
         \E outcomes \in PostOutcomes(cart_service_url,
                           delete(cart_service_url, products, product_id, "ok", AllOk).events) :
           /\ Finish("delete", [product_id |-> product_id],
                     delete(cart_service_url, products, product_id, commit, Pad(outcomes)))
           /\ UNCHANGED <<cart_service_url, categories, attrdefs, next_id, db0, sess>>

\* get_db: the response is delivered and the request's session is closed.
Respond ==
    /\ ~Idle
    /\ last' = NoRequest
    /\ UNCHANGED <<cart_service_url, categories, attrdefs, products, next_id, db0, sess>>

Next ==
    \/ Reserve
    \/ ConfirmReserve
    \/ CancelReserve
    \/ CreateProduct
    \/ UpdateProduct
    \/ DeleteProduct
    \/ Respond

Spec == Init /\ [][Next]_vars

\* ------------------------------------------------- two concurrent reserves
\* Two reserve calls, each in a session of its own (get_db), against a store
\* with read-committed isolation: a SELECT sees the committed rows, an UPDATE
\* locks its row until the transaction ends, a commit publishes the
\* transaction's writes.  products holds the committed rows, db0 the rows at
\* the start, sess[s] the position and the locals of call s.
Sessions == {1, 2}

NewSession(data) ==
    [data |-> data, pc |-> "check", i |-> 1, view |-> <<>>,
     acc |-> [errors |-> <<>>, products_to_reserve |-> <<>>],
     response |-> <<>>, events |-> <<>>]

\* ProductRepository.get_by_id in a session: the SELECT reads the committed
\* rows; a row whose object the session already holds keeps the attributes the
\* object was loaded with (identity map, nothing is expired in between).
session_get(view, db, product_id) ==
    IF product_id \notin DOMAIN db
    THEN [p \in DOMAIN view \ {product_id} |-> view[p]]
    ELSE IF product_id \in DOMAIN view THEN view
    ELSE view @@ (product_id :> db[product_id])

\* The rows the session's flush writes: those whose stock attribute was set.
Dirty(s) ==
    {sess[s].acc.products_to_reserve[k].product_id :
        k \in DOMAIN sess[s].acc.products_to_reserve}

\* The flush's "UPDATE products SET stock = <the object's value> WHERE id = ..."
\* for every dirty row, made visible by the commit.
flush_rows(db, view, dirty) ==
    [p \in DOMAIN db |->
        IF p \in dirty THEN [db[p] EXCEPT !.stock = view[p].stock] ELSE db[p]]

InitConc ==
    /\ cart_service_url = ""
    /\ categories = InitialCategories
    /\ attrdefs = InitialDefinitions
    /\ \E stock \in 1..MaxStock :
         products = (1 :> [InitialProduct EXCEPT !.stock = stock])
    /\ next_id = 2
    /\ last = NoRequest
    /\ db0 = products
    /\ sess \in [Sessions -> {NewSession(data) : data \in ReserveRequests}]

\* One pass of the check loop: await get_by_id, then the two tests.
ConcCheck(s) ==
    /\ sess[s].pc = "check"
    /\ sess[s].i <= Len(sess[s].data.items)
    /\ LET item == sess[s].data.items[sess[s].i]
           view == session_get(sess[s].view, products, item.product_id)
       IN  sess' = [sess EXCEPT ![s] =
                      [sess[s] EXCEPT !.i = sess[s].i + 1,
                                      !.view = view,
                                      !.acc = reserve_check_item(view, item, sess[s].acc)]]
    /\ UNCHANGED <<cart_service_url, categories, attrdefs, products, next_id, last, db0>>

\* After the loop: return the errors, or run the decrement loop on the
\* session's objects.
ConcDecide(s) ==
    /\ sess[s].pc = "check"
    /\ sess[s].i > Len(sess[s].data.items)
    /\ sess' = [sess EXCEPT ![s] =
                  IF reserve_rejects(sess[s].acc)
                  THEN [sess[s] EXCEPT !.pc = "done",
                                       !.response = [status |-> 200, success |-> FALSE,
                                                     reserved_items |-> <<>>,
                                                     errors |-> sess[s].acc.errors]]
                  ELSE [sess[s] EXCEPT !.pc = "flush",
                                       !.view = reserve_apply(sess[s].view,
                                                    sess[s].acc.products_to_reserve)]]
    /\ UNCHANGED <<cart_service_url, categories, attrdefs, products, next_id, last, db0>>

\* session.commit(), first half: the flush sends the UPDATEs; each waits for
\* the row lock while another transaction holds an uncommitted write of the row.
ConcFlush(s) ==
    /\ sess[s].pc = "flush"
    /\ \A t \in Sessions \ {s} : sess[t].pc = "commit" => Dirty(t) \cap Dirty(s) = {}
    /\ sess' = [sess EXCEPT ![s].pc = "commit"]
    /\ UNCHANGED <<cart_service_url, categories, attrdefs, products, next_id, last, db0>>

\* session.commit(), second half, and the rest of the handler: the COMMIT
\* publishes the writes or fails, then the notification loop and the response.
ConcCommit(s) ==
    /\ sess[s].pc = "commit"
    /\ \E commit \in CommitOutcomes :
         LET t == commit_then_notify(
                      cart_service_url,
                      reserve_calls(sess[s].view, sess[s].acc.products_to_reserve),
                      commit, AllOk)
         IN  /\ products' = IF t.committed
                            THEN flush_rows(products, sess[s].view, Dirty(s))
                            ELSE products
             /\ sess' = [sess EXCEPT ![s] =
                           [sess[s] EXCEPT
                              !.pc = "done",
                              !.events = t.events,
                              !.response =
                                  IF t.raised THEN InternalError
                                  ELSE [status |-> 200, success |-> TRUE,
                                        reserved_items |-> sess[s].acc.products_to_reserve,
                                        errors |-> <<>>]]]
    /\ UNCHANGED <<cart_service_url, categories, attrdefs, next_id, last, db0>>

NextConc ==
    \E s \in Sessions :
        \/ ConcCheck(s)
        \/ ConcDecide(s)
        \/ ConcFlush(s)
        \/ ConcCommit(s)

SpecConc == InitConc /\ [][NextConc]_vars

\* ------------------------------------------------------ the validator alone
\* _validate_product_attributes applied to the definitions of the store and an
\* attribute map of a request.  A map is the list of its (key, value) pairs in
\* insertion order; its keys are distinct strings.
ColorLower == <<"c", "o", "l">>
Other == <<"X">>
AttributeTypes == {"string", "number", "boolean", "enum", "array"}
ValidatorKeys == {ColorLower, Weight, Other}
AttributeEntries == [key : ValidatorKeys, value : ValueShapes]
DistinctKeys(m) == \A i, j \in DOMAIN m : m[i].key = m[j].key => i = j
ValidatorMaps ==
    {m \in {<<>>} \cup SeqsUpTo(AttributeEntries, MaxAttrs) : DistinctKeys(m)}

\* The rows a title may have in attribute_definitions: none, or one of any
\* type, in one of the categories cats, required or not.
DefinitionChoices(id, title, cats) ==
    {<<>>} \cup
    {<<[id |-> id, category_id |-> c, title |-> title, type |-> t, required |-> r]>> :
        c \in cats, t \in AttributeTypes, r \in BOOLEAN}

InitValidator ==
    /\ cart_service_url = ""
    /\ categories = InitialCategories
    /\ attrdefs \in {a \o b : a \in DefinitionChoices(1, Color, CategoryIds),
                              b \in DefinitionChoices(2, Weight, {1})}
    /\ products = <<>>
    /\ next_id = 1
    /\ last = NoRequest
    /\ db0 = <<>>
    /\ sess = <<>>

Validate ==
    /\ Idle
    /\ \E category_id \in CategoryIds, attributes \in ValidatorMaps :
         last' = [op |-> "validate",
                  data |-> [category_id |-> category_id, attributes |-> attributes],
                  before |-> <<>>,
                  response |-> [errors |-> validate_product_attributes(
                                               attrdefs, category_id, attributes)],
                  events |-> <<>>]
    /\ UNCHANGED <<cart_service_url, categories, attrdefs, products, next_id, db0, sess>>

NextValidator ==
    \/ Validate
    \/ Respond

SpecValidator == InitValidator /\ [][NextValidator]_vars

\* ------------------------------------------------ the product write path alone
\* create, update and delete of one product, with every field of the schemas
\* varied, in a store with two categories whose definitions differ: category 1
\* requires the string Color, category 2 the number Weight.
Pc == <<"P", "c">>
WriteCategories == (1 :> [title |-> Tv]) @@ (2 :> [title |-> Pc])
\* Categories 1 and 2 exist, category 3 does not.
WriteCategoryIds == {1, 2, 3}
WriteDefinitions ==
    <<[id |-> 1, category_id |-> 1, title |-> Color, type |-> "string", required |-> TRUE],
      [id |-> 2, category_id |-> 2, title |-> Weight, type |-> "number", required |-> TRUE]>>
WritePrices == {100, 200}
WriteImageLists == {<<>>, <<"a", "b">>}
WriteAttributeMaps == {<<>>, <<[key |-> Color, value |-> "str"]>>,
                       <<[key |-> Weight, value |-> "int"]>>}

WriteCreateInputs ==
    [title : Titles, price : WritePrices, category_id : WriteCategoryIds,
     images : WriteImageLists, stock : 0..MaxStock, attributes : WriteAttributeMaps]
WriteUpdateInputs ==
    {data \in [title : Opt(Titles), price : Opt(WritePrices),
               category_id : Opt(WriteCategoryIds), images : Opt(WriteImageLists),
               stock : Opt(0..MaxStock), attributes : Opt(WriteAttributeMaps)] :
        SetFields(data) <= MaxUpdateFields}

\* What the flush and the commit of create may do: succeed, fail on the
\* foreign key of category_id (the category was deleted meanwhile), fail on
\* another constraint, or fail otherwise.
CreateOutcomes == {"ok", "fk_violation", "integrity_error", "db_error"}

InitWrite ==
    /\ cart_service_url \in {"", "http://cart"}
    /\ categories = WriteCategories
    /\ attrdefs = WriteDefinitions
    /\ products = <<>>
    /\ next_id = 1
    /\ last = NoRequest
    /\ db0 = <<>>
    /\ sess = <<>>

WriteCreate ==
    /\ Idle
    /\ next_id = 1
    /\ \E data \in WriteCreateInputs, commit \in CreateOutcomes :
           LET r == create(products, DOMAIN categories, attrdefs, next_id, data, commit)
           IN  /\ Finish("create", data, r)
               /\ next_id' = IF r.inserted THEN next_id + 1 ELSE next_id
               /\ UNCHANGED <<cart_service_url, categories, attrdefs, db0, sess>>

WriteUpdate ==
    /\ Idle
    /\ \E product_id \in ProductIds, data \in WriteUpdateInputs, commit \in CommitOutcomes :
         \E outcomes \in PostOutcomes(cart_service_url,
                           update(cart_service_url, products, DOMAIN categories, attrdefs,
                                  product_id, data, "ok", AllOk).events) :
           /\ Finish("update", [product_id |-> product_id, data |-> data],
                     update(cart_service_url, products, DOMAIN categories, attrdefs,
                            product_id, data, commit, Pad(outcomes)))
           /\ UNCHANGED <<cart_service_url, categories, attrdefs, next_id, db0, sess>>

WriteDelete ==
    /\ Idle
    /\ \E product_id \in ProductIds, commit \in CommitOutcomes :
         \E outcomes \in PostOutcomes(cart_service_url,
                           delete(cart_service_url, products, product_id, "ok", AllOk).events) :
           /\ Finish("delete", [product_id |-> product_id],
                     delete(cart_service_url, products, product_id, commit, Pad(outcomes)))
           /\ UNCHANGED <<cart_service_url, categories, attrdefs, next_id, db0, sess>>

NextWrite ==
    \/ WriteCreate
    \/ WriteUpdate
    \/ WriteDelete
    \/ Respond

SpecWrite == InitWrite /\ [][NextWrite]_vars

\* ------------------------------------------- categories and attribute definitions
\* HTTPException(status_code=...) as the services of categories and of
\* attribute definitions raise it.
HTTPException(status_code) == [status |-> status_code]

\* scalar_one_or_none() over the ids a SELECT returns: <<>> for no row, <<id>>
\* for one row, and MultipleResultsFound (no handler catches it) for more.
MultipleResultsFound == "MultipleResultsFound"
scalar_one_or_none(ids) ==
    IF ids = {} THEN <<>>
    ELSE IF Cardinality(ids) = 1 THEN <<CHOOSE id \in ids : TRUE>>
    ELSE MultipleResultsFound

\* CategoryRepository.get_by_title: WHERE title = :title
category_get_by_title(cats, title) ==
    scalar_one_or_none({c \in DOMAIN cats : cats[c].title = title})

\* The id the sequence of a table gives to the next row (no row of the runs
\* below is deleted).
NewId(ids) == Cardinality(ids) + 1

\* The check of CategoryService.create: <<>> when the INSERT may go ahead,
\* <<response>> when the handler ends here.
category_create_check(cats, data) ==
    LET existing == category_get_by_title(cats, data.title)
    IN  IF existing = MultipleResultsFound THEN <<InternalError>>
        ELSE IF existing # <<>> THEN <<HTTPException(400)>>
        ELSE <<>>

\* CategoryRepository.create and the commit.
category_insert(cats, data, commit) ==
    IF commit = "ok"
    THEN [cats |-> cats @@ (NewId(DOMAIN cats) :> [title |-> data.title]),
          response |-> [status |-> 201, id |-> NewId(DOMAIN cats), title |-> data.title]]
    ELSE [cats |-> cats, response |-> InternalError]

\* CategoryService.create run alone.
category_create(cats, data, commit) ==
    LET stop == category_create_check(cats, data)
    IN  IF stop # <<>> THEN [cats |-> cats, response |-> stop[1]]
        ELSE category_insert(cats, data, commit)

\* The uniqueness check of CategoryService.update, for the loaded category.
category_update_check(cats, loaded_title, data) ==
    IF data.title # loaded_title
    THEN category_create_check(cats, data)
    ELSE <<>>

\* CategoryRepository.update and the commit.
category_write(cats, category_id, data, commit) ==
    IF commit = "ok"
    THEN [cats |-> [cats EXCEPT ![category_id].title = data.title],
          response |-> [status |-> 200, id |-> category_id, title |-> data.title]]
    ELSE [cats |-> cats, response |-> InternalError]

\* CategoryService.update run alone.
category_update(cats, category_id, data, commit) ==
    IF category_id \notin DOMAIN cats
    THEN [cats |-> cats, response |-> HTTPException(404)]
    ELSE LET stop == category_update_check(cats, cats[category_id].title, data)
         IN  IF stop # <<>> THEN [cats |-> cats, response |-> stop[1]]
             ELSE category_write(cats, category_id, data, commit)

\* AttributeRepository.get_by_title: WHERE title = :title, in every category.
attribute_get_by_title(defs, title) ==
    scalar_one_or_none({defs[i].id : i \in {j \in DOMAIN defs : defs[j].title = title}})

\* UniqueConstraint("category_id", "title") of attribute_definitions.
uq_attribute_category(defs) ==
    \A i, j \in DOMAIN defs :
        (defs[i].category_id = defs[j].category_id /\ defs[i].title = defs[j].title)
            => i = j

\* AttributeService.create run alone.
attribute_create(defs, cats, data, commit) ==
    LET existing == attribute_get_by_title(defs, data.title)
        row == [id |-> NewId(DOMAIN defs), category_id |-> data.category_id,
                title |-> data.title, type |-> data.type, required |-> data.required]
    IN  IF existing = MultipleResultsFound
        THEN [defs |-> defs, response |-> InternalError]
        ELSE IF existing # <<>>
        THEN [defs |-> defs, response |-> HTTPException(400)]
        ELSE IF data.category_id \notin DOMAIN cats
        THEN [defs |-> defs, response |-> HTTPException(404)]
        ELSE IF ~uq_attribute_category(Append(defs, row))
        THEN [defs |-> defs, response |-> HTTPException(400)]
        ELSE IF commit # "ok"
        THEN [defs |-> defs, response |-> InternalError]
        ELSE [defs |-> Append(defs, row),
              response |-> [status |-> 201, attribute |-> row]]

\* AttributeRepository.update: setattr for every field that is set.
attribute_repo_update(attribute, data) ==
    [id |-> attribute.id,
     category_id |-> IF IsSet(data.category_id) THEN data.category_id[1]
                     ELSE attribute.category_id,
     title |-> IF IsSet(data.title) THEN data.title[1] ELSE attribute.title,
     type |-> attribute.type,
     required |-> attribute.required]

\* AttributeService.update run alone: an IntegrityError of the flush is not
\* caught here.
attribute_update(defs, cats, attribute_id, data, commit) ==
    LET hits == {i \in DOMAIN defs : defs[i].id = attribute_id}
    IN  IF hits = {} THEN [defs |-> defs, response |-> HTTPException(404)]
        ELSE
        LET i == CHOOSE k \in hits : TRUE
            existing == IF IsSet(data.title) /\ data.title[1] # defs[i].title
                        THEN attribute_get_by_title(defs, data.title[1])
                        ELSE <<>>
            updated == [defs EXCEPT ![i] = attribute_repo_update(defs[i], data)]
        IN  IF existing = MultipleResultsFound
            THEN [defs |-> defs, response |-> InternalError]
            ELSE IF existing # <<>>
            THEN [defs |-> defs, response |-> HTTPException(400)]
            ELSE IF updated[i].category_id \notin DOMAIN cats
                    \/ ~uq_attribute_category(updated)
                    \/ commit # "ok"
            THEN [defs |-> defs, response |-> InternalError]
            ELSE [defs |-> updated, response |-> [status |-> 200, attribute |-> updated[i]]]

\* The titles requests are sent with, before the schema normalises them.
RawCategoryTitles == {<<"t", "v">>, <<" ", "T", "V">>, <<"p", "c">>, <<"P", "c", " ">>, <<" ">>}
RawAttributeTitles == {Color, ColorLower, <<" ", "W", "T">>}

\* CategoryCreateSchema / CategoryUpdateSchema: <<>> when validation fails.
CategorySchema(title) ==
    IF CategoryCreateSchema_normalize_title(title) = <<>> THEN <<>>
    ELSE <<[title |-> CategoryCreateSchema_normalize_title(title)[1]]>>

\* AttributeCreateSchema
AttributeCreateSchema(category_id, title, type, required) ==
    IF normalize_title(title) = <<>> THEN <<>>
    ELSE <<[category_id |-> category_id, title |-> normalize_title(title)[1],
            type |-> type, required |-> required]>>

\* AttributeUpdateSchema with category_id and title set or unset.
AttributeUpdateSchema(category_id, title) ==
    IF title # <<>> /\ normalize_title(title[1]) = <<>> THEN <<>>
    ELSE <<[category_id |-> category_id,
            title |-> IF title = <<>> THEN <<>> ELSE normalize_title(title[1])]>>

\* Sequential runs: category 1 is stored and holds one definition.
CatalogCategoryIds == {1, 2, 3}
InitCatalog ==
    /\ cart_service_url = ""
    /\ categories = InitialCategories
    /\ attrdefs = <<[id |-> 1, category_id |-> 1, title |-> Color, type |-> "string",
                     required |-> TRUE]>>
    /\ products = <<>>
    /\ next_id = 1
    /\ last = NoRequest
    /\ db0 = <<>>
    /\ sess = <<>>

\* The request is answered: last keeps the tables as they were before it.
FinishCatalog(op, data, cats, defs, response) ==
    /\ categories' = cats
    /\ attrdefs' = defs
    /\ last' = [op |-> op, data |-> data,
                before |-> [categories |-> categories, attrdefs |-> attrdefs],
                response |-> response, events |-> <<>>]
    /\ UNCHANGED <<cart_service_url, products, next_id, db0, sess>>

RequestValidationError == [status |-> 422]

CategoryCreate ==
    /\ Idle
    /\ Cardinality(DOMAIN categories) < Cardinality(CatalogCategoryIds)
    /\ \E title \in RawCategoryTitles, commit \in CommitOutcomes :
         LET data == CategorySchema(title)
         IN  IF data = <<>>
             THEN FinishCatalog("category_create", [title |-> title],
                                categories, attrdefs, RequestValidationError)
             ELSE LET r == category_create(categories, data[1], commit)
                  IN  FinishCatalog("category_create", data[1], r.cats, attrdefs,
                                    r.response)

CategoryUpdate ==
    /\ Idle
    /\ \E category_id \in CatalogCategoryIds, title \in RawCategoryTitles,
          commit \in CommitOutcomes :
         LET data == CategorySchema(title)
         IN  IF data = <<>>
             THEN FinishCatalog("category_update",
                                [category_id |-> category_id, title |-> title],
                                categories, attrdefs, RequestValidationError)
             ELSE LET r == category_update(categories, category_id, data[1], commit)
                  IN  FinishCatalog("category_update",
                                    [category_id |-> category_id, title |-> data[1].title],
                                    r.cats, attrdefs, r.response)

AttributeCreate ==
    /\ Idle
    /\ Len(attrdefs) < Cardinality(CatalogCategoryIds)
    /\ \E category_id \in CatalogCategoryIds, title \in RawAttributeTitles,
          type \in {"string", "number"}, commit \in CommitOutcomes :
         LET data == AttributeCreateSchema(category_id, title, type, FALSE)
             r == attribute_create(attrdefs, categories, data[1], commit)
         IN  FinishCatalog("attribute_create", data[1], categories, r.defs, r.response)

AttributeUpdate ==
    /\ Idle
    /\ \E attribute_id \in CatalogCategoryIds, category_id \in Opt(CatalogCategoryIds),
          title \in Opt(RawAttributeTitles), commit \in CommitOutcomes :
         LET data == AttributeUpdateSchema(category_id, title)
             r == attribute_update(attrdefs, categories, attribute_id, data[1], commit)
         IN  FinishCatalog("attribute_update",
                           [attribute_id |-> attribute_id, data |-> data[1]],
                           categories, r.defs, r.response)

NextCatalog ==
    \/ CategoryCreate
    \/ CategoryUpdate
    \/ AttributeCreate
    \/ AttributeUpdate
    \/ Respond

SpecCatalog == InitCatalog /\ [][NextCatalog]_vars

\* --------------------------------------- two concurrent category requests
\* Two category requests, each in a session of its own, against the committed
\* table categories (read committed; the table has no constraint on title).
\* sess[s] holds the request (the title as sent and as the schema normalised
\* it), its position and the title of the category object it loaded.
CategoryRequests ==
    {[op |-> "create", category_id |-> 0, raw |-> title,
      data |-> CategorySchema(title)[1]] :
        title \in {t \in RawCategoryTitles : CategorySchema(t) # <<>>}}
    \cup
    {[op |-> "update", category_id |-> c, raw |-> title,
      data |-> CategorySchema(title)[1]] :
        c \in {1, 2}, title \in {t \in RawCategoryTitles : CategorySchema(t) # <<>>}}

NewCategorySession(request) ==
    [op |-> request.op, category_id |-> request.category_id, raw |-> request.raw,
     data |-> request.data,
     pc |-> IF request.op = "create" THEN "check" ELSE "load",
     loaded_title |-> <<>>, response |-> <<>>]

InitCatConc ==
    /\ cart_service_url = ""
    /\ categories = InitialCategories
    /\ attrdefs = <<>>
    /\ products = <<>>
    /\ next_id = 1
    /\ last = NoRequest
    /\ db0 = <<>>
    /\ sess \in [Sessions -> {NewCategorySession(r) : r \in CategoryRequests}]

EndWith(s, response) == [sess[s] EXCEPT !.pc = "done", !.response = response]

\* CategoryService.update: await self.get_by_id(category_id)
ConcCatLoad(s) ==
    /\ sess[s].pc = "load"
    /\ sess' = [sess EXCEPT ![s] =
                  IF sess[s].category_id \notin DOMAIN categories
                  THEN EndWith(s, HTTPException(404))
                  ELSE [sess[s] EXCEPT
                          !.pc = "check",
                          !.loaded_title = categories[sess[s].category_id].title]]
    /\ UNCHANGED <<cart_service_url, categories, attrdefs, products, next_id, last, db0>>

\* await self.repo.get_by_title(...) and the test of its result.
ConcCatCheck(s) ==
    /\ sess[s].pc = "check"
    /\ LET stop == IF sess[s].op = "create"
                   THEN category_create_check(categories, sess[s].data)
                   ELSE category_update_check(categories, sess[s].loaded_title,
                                              sess[s].data)
       IN  sess' = [sess EXCEPT ![s] =
                      IF stop # <<>> THEN EndWith(s, stop[1])
                      ELSE [sess[s] EXCEPT !.pc = "write"]]
    /\ UNCHANGED <<cart_service_url, categories, attrdefs, products, next_id, last, db0>>

\* The flush of repo.create / repo.update and the commit that publishes it.
ConcCatWrite(s) ==
    /\ sess[s].pc = "write"
    /\ \E commit \in CommitOutcomes :
         LET r == IF sess[s].op = "create"
                  THEN category_insert(categories, sess[s].data, commit)
                  ELSE category_write(categories, sess[s].category_id, sess[s].data, commit)
         IN  /\ categories' = r.cats
             /\ sess' = [sess EXCEPT ![s] = EndWith(s, r.response)]
    /\ UNCHANGED <<cart_service_url, attrdefs, products, next_id, last, db0>>

NextCatConc ==
    \E s \in Sessions :
        \/ ConcCatLoad(s)
        \/ ConcCatCheck(s)
        \/ ConcCatWrite(s)

SpecCatConc == InitCatConc /\ [][NextCatConc]_vars

\* ----------------------------------------------------- the public HTTP surface
\* The routes of api/v1 with the header X-User-Role, over one store of
\* categories, attribute definitions and products.

\* CategoryService.delete run alone.  CategoryModel.products has no delete
\* cascade and no passive_deletes, so the flush of session.delete(category)
\* loads the category's products and issues UPDATE products SET category_id =
\* NULL for them; products.category_id is NOT NULL, the statement raises
\* IntegrityError, no handler catches it and the transaction is rolled back.
\* CategoryModel.attribute_definitions has cascade "all, delete-orphan": the
\* definitions are deleted with the category.
category_delete(cats, defs, db, category_id, commit) ==
    IF category_id \notin DOMAIN cats
    THEN [cats |-> cats, defs |-> defs, response |-> HTTPException(404)]
    ELSE IF \E p \in DOMAIN db : db[p].category_id = category_id
    THEN [cats |-> cats, defs |-> defs, response |-> InternalError]
    ELSE IF commit # "ok"
    THEN [cats |-> cats, defs |-> defs, response |-> InternalError]
    ELSE [cats |-> [c \in DOMAIN cats \ {category_id} |-> cats[c]],
          defs |-> SelectSeq(defs, LAMBDA d : d.category_id # category_id),
          response |-> [status |-> 204]]

\* AttributeService.delete run alone.
attribute_delete(defs, attribute_id, commit) ==
    IF \A i \in DOMAIN defs : defs[i].id # attribute_id
    THEN [defs |-> defs, response |-> HTTPException(404)]
    ELSE IF commit # "ok"
    THEN [defs |-> defs, response |-> InternalError]
    ELSE [defs |-> SelectSeq(defs, LAMBDA d : d.id # attribute_id),
          response |-> [status |-> 204]]

\* ProductService.get_by_id
get_by_id(db, product_id) ==
    IF product_id \in DOMAIN db
    THEN [status |-> 200, product |-> db[product_id]]
    ELSE NotFound("product", product_id)

\* The header X-User-Role: absent, or one of these values.
Roles == {<<>>, <<"admin">>, <<"user">>}

\* _require_admin: <<>> when the request goes on, <<response>> when it is
\* answered here.
require_admin(x_user_role) ==
    IF x_user_role # <<>> /\ x_user_role[1] # "admin"
    THEN <<HTTPException(403)>>
    ELSE <<>>

\* The routes of api/v1/products.py.  create, update and delete are declared
\* with dependencies=[Depends(_require_admin)].
get_product(db, product_id) == get_by_id(db, product_id)
create_product(x_user_role, db, cats, defs, id, data, commit) ==
    IF require_admin(x_user_role) # <<>>
    THEN [db |-> db, inserted |-> FALSE, events |-> <<>>,
          response |-> require_admin(x_user_role)[1]]
    ELSE create(db, cats, defs, id, data, commit)
update_product(x_user_role, url, db, cats, defs, product_id, data, commit, outcomes) ==
    IF require_admin(x_user_role) # <<>>
    THEN [db |-> db, events |-> <<>>, response |-> require_admin(x_user_role)[1]]
    ELSE update(url, db, cats, defs, product_id, data, commit, outcomes)
delete_product(x_user_role, url, db, product_id, commit, outcomes) ==
    IF require_admin(x_user_role) # <<>>
    THEN [db |-> db, events |-> <<>>, response |-> require_admin(x_user_role)[1]]
    ELSE delete(url, db, product_id, commit, outcomes)

\* The routes of api/v1/categories.py and of api/v1/attributes.py: none of
\* them declares a dependency on the header, which is not read.
create_category(cats, data, commit) == category_create(cats, data, commit)
update_category(cats, category_id, data, commit) ==
    category_update(cats, category_id, data, commit)
delete_category(cats, defs, db, category_id, commit) ==
    category_delete(cats, defs, db, category_id, commit)
create_attribute(defs, cats, data, commit) == attribute_create(defs, cats, data, commit)
update_attribute(defs, cats, attribute_id, data, commit) ==
    attribute_update(defs, cats, attribute_id, data, commit)
delete_attribute(defs, attribute_id, commit) == attribute_delete(defs, attribute_id, commit)

\* The requests that are enumerated.
HttpCreateInputs ==
    {data \in WriteCreateInputs :
        /\ data.title = "Tablet" /\ data.price = 100 /\ data.images = <<>>
        /\ data.stock = 1 /\ data.category_id \in {1, 3}
        /\ data.attributes = <<[key |-> Color, value |-> "str"]>>}
HttpUpdateInputs ==
    {data \in WriteUpdateInputs :
        /\ data.title = <<>> /\ data.images = <<>> /\ data.attributes = <<>>
        /\ data.price = <<>> /\ data.stock = <<>> /\ data.category_id \in {<<>>, <<2>>}}
HttpNewCategoryTitles == {<<"O">>}
HttpCategoryTitles == {<<"t", "v">>}
HttpAttributeIds == {1, 2, 3}

\* The store holds the two categories and their definitions, and one product
\* of category 1.  sess holds the next values of the id sequences of the
\* tables categories and attribute_definitions.
InitHttp ==
    /\ cart_service_url = ""
    /\ categories = WriteCategories
    /\ attrdefs = WriteDefinitions
    /\ products \in {<<>>, (1 :> InitialProduct)}
    /\ next_id = 2
    /\ last = NoRequest
    /\ db0 = <<>>
    /\ sess = [categories |-> 3, attrdefs |-> 3]

FinishHttp(op, role, data, commit, cats, defs, db, response) ==
    /\ categories' = cats
    /\ attrdefs' = defs
    /\ products' = db
    /\ last' = [op |-> op, data |-> data, role |-> role, commit |-> commit,
                before |-> [categories |-> categories, attrdefs |-> attrdefs,
                            products |-> products],
                response |-> response, events |-> <<>>]
    /\ UNCHANGED <<cart_service_url, db0>>

HttpGetProduct ==
    /\ Idle
    /\ \E role \in Roles, product_id \in ProductIds :
         /\ FinishHttp("get_product", role, [product_id |-> product_id], "ok",
                       categories, attrdefs, products, get_product(products, product_id))
         /\ UNCHANGED <<next_id, sess>>

HttpCreateProduct ==
    /\ Idle
    /\ next_id \in ProductIds
    /\ \E role \in Roles, data \in HttpCreateInputs, commit \in CommitOutcomes :
         LET r == create_product(role, products, DOMAIN categories, attrdefs, next_id,
                                 data, commit)
         IN  /\ FinishHttp("create_product", role, data, commit, categories, attrdefs, r.db,
                           r.response)
             /\ next_id' = IF r.inserted THEN next_id + 1 ELSE next_id
             /\ UNCHANGED sess

HttpUpdateProduct ==
    /\ Idle
    /\ \E role \in Roles, product_id \in ProductIds, data \in HttpUpdateInputs,
          commit \in CommitOutcomes :
         LET r == update_product(role, cart_service_url, products, DOMAIN categories,
                                 attrdefs, product_id, data, commit, AllOk)
         IN  /\ FinishHttp("update_product", role,
                           [product_id |-> product_id, data |-> data], commit,
                           categories, attrdefs, r.db, r.response)
             /\ UNCHANGED <<next_id, sess>>

HttpDeleteProduct ==
    /\ Idle
    /\ \E role \in Roles, product_id \in ProductIds, commit \in CommitOutcomes :
         LET r == delete_product(role, cart_service_url, products, product_id, commit,
                                 AllOk)
         IN  /\ FinishHttp("delete_product", role, [product_id |-> product_id], commit,
                           categories, attrdefs, r.db, r.response)
             /\ UNCHANGED <<next_id, sess>>

HttpCreateCategory ==
    /\ Idle
    /\ sess.categories = NewId(DOMAIN categories)
    /\ sess.categories \in CatalogCategoryIds
    /\ \E role \in Roles, title \in HttpNewCategoryTitles, commit \in CommitOutcomes :
         LET data == CategorySchema(title)[1]
             r == create_category(categories, data, commit)
         IN  /\ FinishHttp("create_category", role, data, commit, r.cats, attrdefs, products,
                           r.response)
             /\ sess' = IF r.cats # categories
                        THEN [sess EXCEPT !.categories = @ + 1] ELSE sess
             /\ UNCHANGED next_id

HttpUpdateCategory ==
    /\ Idle
    /\ \E role \in Roles, category_id \in CatalogCategoryIds,
          title \in HttpCategoryTitles, commit \in CommitOutcomes :
         LET data == CategorySchema(title)[1]
             r == update_category(categories, category_id, data, commit)
         IN  /\ FinishHttp("update_category", role,
                           [category_id |-> category_id, title |-> data.title],
                           commit, r.cats, attrdefs, products, r.response)
             /\ UNCHANGED <<next_id, sess>>

HttpDeleteCategory ==
    /\ Idle
    /\ \E role \in Roles, category_id \in CatalogCategoryIds, commit \in CommitOutcomes :
         LET r == delete_category(categories, attrdefs, products, category_id, commit)
         IN  /\ FinishHttp("delete_category", role, [category_id |-> category_id], commit,
                           r.cats, r.defs, products, r.response)
             /\ UNCHANGED <<next_id, sess>>

HttpCreateAttribute ==
    /\ Idle
    /\ sess.attrdefs = NewId(DOMAIN attrdefs)
    /\ sess.attrdefs \in HttpAttributeIds
    /\ \E role \in Roles, category_id \in CategoryIds, commit \in CommitOutcomes :
         LET data == AttributeCreateSchema(category_id, Other, "string", TRUE)[1]
             r == create_attribute(attrdefs, categories, data, commit)
         IN  /\ FinishHttp("create_attribute", role, data, commit, categories, r.defs, products,
                           r.response)
             /\ sess' = IF r.defs # attrdefs
                        THEN [sess EXCEPT !.attrdefs = @ + 1] ELSE sess
             /\ UNCHANGED next_id

HttpUpdateAttribute ==
    /\ Idle
    /\ \E role \in Roles, attribute_id \in HttpAttributeIds,
          title \in Opt({Color}), commit \in CommitOutcomes :
         LET data == AttributeUpdateSchema(<<>>, title)[1]
             r == update_attribute(attrdefs, categories, attribute_id, data, commit)
         IN  /\ FinishHttp("update_attribute", role,
                           [attribute_id |-> attribute_id, data |-> data], commit,
                           categories, r.defs, products, r.response)
             /\ UNCHANGED <<next_id, sess>>

HttpDeleteAttribute ==
    /\ Idle
    /\ \E role \in Roles, attribute_id \in HttpAttributeIds, commit \in CommitOutcomes :
         LET r == delete_attribute(attrdefs, attribute_id, commit)
         IN  /\ FinishHttp("delete_attribute", role, [attribute_id |-> attribute_id], commit,
                           categories, r.defs, products, r.response)
             /\ UNCHANGED <<next_id, sess>>

NextHttp ==
    \/ HttpGetProduct
    \/ HttpCreateProduct
    \/ HttpUpdateProduct
    \/ HttpDeleteProduct
    \/ HttpCreateCategory
    \/ HttpUpdateCategory
    \/ HttpDeleteCategory
    \/ HttpCreateAttribute
    \/ HttpUpdateAttribute
    \/ HttpDeleteAttribute
    \/ Respond

SpecHttp == InitHttp /\ [][NextHttp]_vars

\* ------------------------------------------------------ title normalisation alone
\* The normalisers applied to every title of up to MaxTitleLen characters
\* over blanks and letters of both cases.
MaxTitleLen == 3
TitleChars == {" ", "t", "T", "v"}
RawTitles == SeqsUpTo(TitleChars, MaxTitleLen)

\* The normaliser applied to its own result.
Twice(normalizer(_), title) ==
    IF normalizer(title) = <<>> THEN <<>> ELSE normalizer(normalizer(title)[1])

\* sess holds the title that is sent.
InitNormalize ==
    /\ cart_service_url = ""
    /\ categories = <<>>
    /\ attrdefs = <<>>
    /\ products = <<>>
    /\ next_id = 1
    /\ last = NoRequest
    /\ db0 = <<>>
    /\ sess \in RawTitles

Normalize ==
    /\ Idle
    /\ last' = [op |-> "normalize_title", data |-> sess, before |-> <<>>,
                response |-> [shared |-> normalize_title(sess),
                              shared_twice |-> Twice(normalize_title, sess),
                              category |-> CategoryCreateSchema_normalize_title(sess),
                              category_twice |->
                                  Twice(CategoryCreateSchema_normalize_title, sess)],
                events |-> <<>>]
    /\ UNCHANGED <<cart_service_url, categories, attrdefs, products, next_id, db0, sess>>

NextNormalize ==
    \/ Normalize
    \/ Respond

SpecNormalize == InitNormalize /\ [][NextNormalize]_vars

\* ------------------------------------------------- the reservation calls in sequence
\* reserve, confirm_reserve and cancel_reserve issued one after the other on
\* product 1, every commit succeeding.  db0 is the store at the start, sess
\* the request answered before the last one.
CycleItems == [product_id : {1}, quantity : 1..MaxQty]
CycleRequests == [items : SeqsUpTo(CycleItems, MaxItems)]

InitCycle ==
    /\ cart_service_url = ""
    /\ categories = InitialCategories
    /\ attrdefs = InitialDefinitions
    /\ \E stock \in 0..MaxStock : products = (1 :> [InitialProduct EXCEPT !.stock = stock])
    /\ next_id = 2
    /\ last = NoRequest
    /\ db0 = products
    /\ sess = NoRequest

CycleReserve ==
    /\ Idle
    /\ \E data \in CycleRequests :
           /\ Finish("reserve", data,
                     reserve(cart_service_url, products, data, "ok", AllOk))
           /\ UNCHANGED <<cart_service_url, categories, attrdefs, next_id, db0, sess>>

CycleConfirm ==
    /\ Idle
    /\ \E data \in CycleRequests :
           /\ Finish("confirm_reserve", data,
                     [db |-> products, response |-> confirm_reserve(data), events |-> <<>>])
           /\ UNCHANGED <<cart_service_url, categories, attrdefs, next_id, db0, sess>>

CycleCancel ==
    /\ Idle
    /\ \E data \in CycleRequests :
           LET r == cancel_reserve(cart_service_url, products, data, "ok", AllOk)
           IN  /\ StockWithinBound(r.db)
               /\ Finish("cancel_reserve", data, r)
               /\ UNCHANGED <<cart_service_url, categories, attrdefs, next_id, db0, sess>>

\* The response is delivered; the request becomes the previous one.
CycleRespond ==
    /\ ~Idle
    /\ sess' = last
    /\ last' = NoRequest
    /\ UNCHANGED <<cart_service_url, categories, attrdefs, products, next_id, db0>>

NextCycle ==
    \/ CycleReserve
    \/ CycleConfirm
    \/ CycleCancel
    \/ CycleRespond

SpecCycle == InitCycle /\ [][NextCycle]_vars

\* ------------------------------------------------- the internal router's handlers
\* reserve_products, confirm_reserve and cancel_reserve of
\* api/internal/products.py, which work on the request's session themselves.

\* The first loop of reserve_products, from item i on.
RECURSIVE internal_reserve_check(_, _, _, _, _)
internal_reserve_check(db, items, i, errors, products_to_reserve) ==
    IF i > Len(items)
    THEN [errors |-> errors, products_to_reserve |-> products_to_reserve]
    ELSE IF items[i].product_id \notin DOMAIN db
    THEN internal_reserve_check(db, items, i + 1,
             Append(errors, NotFoundError(items[i].product_id)), products_to_reserve)
    ELSE IF db[items[i].product_id].stock < items[i].quantity
    THEN internal_reserve_check(db, items, i + 1,
             Append(errors, InsufficientError(db[items[i].product_id].title,
                                              items[i].quantity,
                                              db[items[i].product_id].stock)),
             products_to_reserve)
    ELSE internal_reserve_check(db, items, i + 1, errors,
                                Append(products_to_reserve, items[i]))

\* reserve_products
internal_reserve_products(url, db, data, commit, outcomes) ==
    LET chk == internal_reserve_check(db, data.items, 1, <<>>, <<>>)
        \* every entry of products_to_reserve decrements the one object of its id
        after == [p \in DOMAIN db |->
                    [db[p] EXCEPT !.stock = @ - QtyOf(chk.products_to_reserve, p)]]
        zero == SelectSeq(chk.products_to_reserve,
                          LAMBDA e : after[e.product_id].stock = 0)
        calls == [k \in 1..Len(zero) |-> Call("out_of_stock", zero[k].product_id, <<>>)]
        sent == notify_all(url, calls, outcomes, 1)
    IN  IF Len(chk.errors) > 0
        THEN [db |-> db, events |-> <<>>,
              response |-> [status |-> 200, success |-> FALSE, reserved_items |-> <<>>,
                            errors |-> chk.errors]]
        ELSE IF commit # "ok"
        THEN [db |-> db, events |-> <<[type |-> "commit", outcome |-> commit]>>,
              response |-> InternalError]
        ELSE [db |-> after,
              events |-> <<[type |-> "commit", outcome |-> commit]>> \o sent.events,
              response |-> IF sent.raised THEN InternalError
                           ELSE [status |-> 200, success |-> TRUE,
                                 reserved_items |-> chk.products_to_reserve,
                                 errors |-> <<>>]]

\* confirm_reserve of the router
internal_confirm_reserve(data) ==
    [items_count |-> Len(data.items), status |-> "confirmed"]

\* The loop of the router's cancel_reserve, from item i on.
RECURSIVE internal_cancel_loopMutTestAfter(_, _, _, _, _, _)
internal_cancel_loopMutTestAfter(view, items, i, restored, errors, was_out_of_stock) ==
    IF i > Len(items)
    THEN [view |-> view, restored |-> restored, errors |-> errors,
          was_out_of_stock |-> was_out_of_stock]
    ELSE IF items[i].product_id \notin DOMAIN view
    THEN internal_cancel_loopMutTestAfter(view, items, i + 1, restored,
             Append(errors, NotFoundError(items[i].product_id)), was_out_of_stock)
    ELSE internal_cancel_loopMutTestAfter(
             [view EXCEPT ![items[i].product_id].stock = @ + items[i].quantity],
             items, i + 1, Append(restored, items[i]), errors,
             IF view[items[i].product_id].stock + items[i].quantity = 0
             THEN Append(was_out_of_stock, items[i].product_id)
             ELSE was_out_of_stock)
RECURSIVE internal_cancel_loop(_, _, _, _, _, _)
internal_cancel_loop(view, items, i, restored, errors, was_out_of_stock) ==
    IF i > Len(items)
    THEN [view |-> view, restored |-> restored, errors |-> errors,
          was_out_of_stock |-> was_out_of_stock]
    ELSE IF items[i].product_id \notin DOMAIN view
    THEN internal_cancel_loop(view, items, i + 1, restored,
             Append(errors, NotFoundError(items[i].product_id)), was_out_of_stock)
    ELSE internal_cancel_loop(
             [view EXCEPT ![items[i].product_id].stock = @ + items[i].quantity],
             items, i + 1, Append(restored, items[i]), errors,
             IF view[items[i].product_id].stock = 0
             THEN Append(was_out_of_stock, items[i].product_id)
             ELSE was_out_of_stock)

\* cancel_reserve of the router
internal_cancel_reserve(url, db, data, commit, outcomes) ==
    LET done == internal_cancel_loop(db, data.items, 1, <<>>, <<>>, <<>>)
        calls == [k \in 1..Len(done.was_out_of_stock) |->
                    Call("back_in_stock", done.was_out_of_stock[k], <<>>)]
        sent == notify_all(url, calls, outcomes, 1)
    IN  IF commit # "ok"
        THEN [db |-> db, events |-> <<[type |-> "commit", outcome |-> commit]>>,
              response |-> InternalError]
        ELSE [db |-> done.view,
              events |-> <<[type |-> "commit", outcome |-> commit]>> \o sent.events,
              response |-> IF sent.raised THEN InternalError
                           ELSE [status |-> 200, success |-> Len(done.errors) = 0,
                                 reserved_items |-> done.restored,
                                 errors |-> done.errors]]

\* Product 1 is stored with any stock, product 2 is not stored.
InitInternal ==
    /\ cart_service_url \in {"", "http://cart"}
    /\ categories = InitialCategories
    /\ attrdefs = InitialDefinitions
    /\ \E stock \in 0..MaxStock : products = (1 :> [InitialProduct EXCEPT !.stock = stock])
    /\ next_id = 2
    /\ last = NoRequest
    /\ db0 = <<>>
    /\ sess = <<>>

\* The request is answered: last keeps what the environment did to it.
FinishInternal(op, data, commit, outcomes, r) ==
    /\ products' = r.db
    /\ last' = [op |-> op, data |-> data, before |-> products, commit |-> commit,
                outcomes |-> outcomes, response |-> r.response, events |-> r.events]
    /\ UNCHANGED <<cart_service_url, categories, attrdefs, next_id, db0, sess>>

InternalReserve ==
    /\ Idle
    /\ \E data \in ReserveRequests, commit \in CommitOutcomes :
         \E outcomes \in PostOutcomes(cart_service_url,
                internal_reserve_products(cart_service_url, products, data, "ok",
                                          AllOk).events) :
           FinishInternal("reserve_products", data, commit, Pad(outcomes),
               internal_reserve_products(cart_service_url, products, data, commit,
                                         Pad(outcomes)))

InternalConfirm ==
    /\ Idle
    /\ \E data \in ReserveRequests :
           FinishInternal("confirm_reserve", data, "ok", AllOk,
               [db |-> products, response |-> internal_confirm_reserve(data),
                events |-> <<>>])

InternalCancel ==
    /\ Idle
    /\ \E data \in ReserveRequests, commit \in CommitOutcomes :
         \E outcomes \in PostOutcomes(cart_service_url,
                internal_cancel_reserve(cart_service_url, products, data, "ok",
                                        AllOk).events) :
           LET r == internal_cancel_reserve(cart_service_url, products, data, commit,
                                            Pad(outcomes))
           IN  /\ StockWithinBound(r.db)
               /\ FinishInternal("cancel_reserve", data, commit, Pad(outcomes), r)

NextInternal ==
    \/ InternalReserve
    \/ InternalConfirm
    \/ InternalCancel
    \/ Respond

SpecInternal == InitInternal /\ [][NextInternal]_vars

\* ------------------------------------- concurrent requests on the stock of one product
\* Two requests on product 1, each in its own session and transaction
\* (READ COMMITTED): a reserve, a cancel-reserve or an update of the stock or
\* of the price.  products holds the committed row, db0 the row at the start,
\* last the commits and the notify calls in the order they happen.
StockRequests ==
    {[op |-> op, quantity |-> q, data |-> <<>>] :
        op \in {"reserve", "cancel_reserve"}, q \in 1..MaxQty}
    \cup {[op |-> "update", quantity |-> 0, data |-> <<data>>] :
            data \in {d \in ProductUpdateInputs :
                        /\ d.title = <<>> /\ d.category_id = <<>> /\ d.images = <<>>
                        /\ d.attributes = <<>>
                        /\ d.price \in {<<>>, <<200>>}
                        /\ SetFields(d) = 1}}

NewStockSession(request) ==
    [request |-> request, pc |-> "load", loaded |-> <<>>, object |-> <<>>,
     was_out_of_stock |-> <<>>, locked |-> FALSE, pending |-> <<>>, response |-> <<>>]

InitStock ==
    /\ cart_service_url = ""
    /\ categories = InitialCategories
    /\ attrdefs = InitialDefinitions
    /\ \E stock \in 0..MaxStock :
         products = (1 :> [InitialProduct EXCEPT !.stock = stock])
    /\ next_id = 2
    /\ last = <<>>
    /\ db0 = products
    /\ sess \in [Sessions -> {NewStockSession(r) : r \in StockRequests}]

\* await ProductRepository.get_by_id, and the handler up to its next await:
\* reserve checks and decrements, cancel_reserve remembers a stock of 0 and
\* increments, update keeps the old values and sets the fields that are set.
StockLoad(s) ==
    /\ sess[s].pc = "load"
    /\ LET row == products[1]
           r == sess[s].request
       IN  sess' = [sess EXCEPT ![s] =
             IF r.op = "reserve" /\ row.stock < r.quantity
             THEN [@ EXCEPT !.pc = "done", !.loaded = row, !.object = row,
                            !.response = [status |-> 200, success |-> FALSE]]
             ELSE IF r.op = "reserve"
             THEN [@ EXCEPT !.pc = "flush", !.loaded = row,
                            !.object = [row EXCEPT !.stock = @ - r.quantity]]
             ELSE IF r.op = "cancel_reserve"
             THEN [@ EXCEPT !.pc = "flush", !.loaded = row,
                            !.object = [row EXCEPT !.stock = @ + r.quantity],
                            !.was_out_of_stock = IF row.stock = 0 THEN <<1>> ELSE <<>>]
             ELSE [@ EXCEPT !.pc = "flush", !.loaded = row,
                            !.object = repo_update(row, r.data[1])]]
    /\ UNCHANGED <<cart_service_url, categories, attrdefs, products, next_id, last, db0>>

\* The columns the flush writes: the attributes whose value was changed.
DirtyColumns(s) ==
    {f \in DOMAIN sess[s].object : sess[s].object[f] # sess[s].loaded[f]}

\* The flush (of repo.update, or at the start of session.commit()): an
\* "UPDATE products SET <dirty columns> WHERE id = 1", which waits while
\* another transaction holds an uncommitted write of the row.
StockFlush(s) ==
    /\ sess[s].pc = "flush"
    /\ DirtyColumns(s) # {} => \A t \in Sessions \ {s} : ~sess[t].locked
    /\ sess' = [sess EXCEPT ![s].pc = "commit", ![s].locked = DirtyColumns(s) # {}]
    /\ UNCHANGED <<cart_service_url, categories, attrdefs, products, next_id, last, db0>>

\* The COMMIT: the written columns become the committed ones, or the
\* transaction fails and the handler ends with the exception.
StockCommit(s) ==
    /\ sess[s].pc = "commit"
    /\ \E commit \in CommitOutcomes :
         IF commit = "ok"
         THEN /\ products' = (1 :> [f \in DOMAIN products[1] |->
                                      IF f \in DirtyColumns(s) THEN sess[s].object[f]
                                      ELSE products[1][f]])
              /\ last' = Append(last, [type |-> "commit", session |-> s,
                                       stock |-> products'[1].stock])
              /\ sess' = [sess EXCEPT ![s].locked = FALSE,
                            ![s].pc = IF sess[s].request.op = "update" THEN "refresh"
                                      ELSE "notify",
                            ![s].pending =
                                IF sess[s].request.op = "reserve"
                                THEN reserve_calls((1 :> sess[s].object),
                                         <<[product_id |-> 1,
                                            quantity |-> sess[s].request.quantity]>>)
                                ELSE IF sess[s].request.op = "cancel_reserve"
                                THEN cancel_calls(sess[s].was_out_of_stock)
                                ELSE <<>>]
         ELSE /\ sess' = [sess EXCEPT ![s].locked = FALSE, ![s].pc = "done",
                                      ![s].response = InternalError]
              /\ UNCHANGED <<products, last>>
    /\ UNCHANGED <<cart_service_url, categories, attrdefs, next_id, db0>>

\* update: await session.refresh(updated) reloads the committed row; the
\* notifications are decided from it and from the old values.
StockRefresh(s) ==
    /\ sess[s].pc = "refresh"
    /\ sess' = [sess EXCEPT ![s].pc = "notify", ![s].object = products[1],
                            ![s].pending = update_calls(1, sess[s].loaded, products[1])]
    /\ UNCHANGED <<cart_service_url, categories, attrdefs, products, next_id, last, db0>>

\* One awaited notify call of the handler.
StockNotify(s) ==
    /\ sess[s].pc = "notify"
    /\ sess[s].pending # <<>>
    /\ last' = Append(last, [type |-> "notify", session |-> s,
                             event |-> Head(sess[s].pending).event])
    /\ sess' = [sess EXCEPT ![s].pending = Tail(@)]
    /\ UNCHANGED <<cart_service_url, categories, attrdefs, products, next_id, db0>>

\* The handler returns.
StockReturn(s) ==
    /\ sess[s].pc = "notify"
    /\ sess[s].pending = <<>>
    /\ sess' = [sess EXCEPT ![s].pc = "done",
                            ![s].response = [status |-> 200, success |-> TRUE]]
    /\ UNCHANGED <<cart_service_url, categories, attrdefs, products, next_id, last, db0>>

NextStock ==
    \E s \in Sessions :
        \/ StockLoad(s)
        \/ StockFlush(s)
        \/ StockCommit(s)
        \/ StockRefresh(s)
        \/ StockNotify(s)
        \/ StockReturn(s)

SpecStock == InitStock /\ [][NextStock]_vars

\* ------------------------------------------------------------ properties
\* What the last request's trace holds.
NotifyEvents(event, product_id) ==
    {i \in DOMAIN last.events :
        /\ last.events[i].type = "notify"
        /\ last.events[i].event = event
        /\ last.events[i].product_id = product_id}
Notifies == {i \in DOMAIN last.events : last.events[i].type = "notify"}
Posts == {i \in DOMAIN last.events : last.events[i].type = "post"}
Commits == {i \in DOMAIN last.events :
               last.events[i].type = "commit" /\ last.events[i].outcome = "ok"}
FailedCommits == {i \in DOMAIN last.events :
                     last.events[i].type = "commit" /\ last.events[i].outcome # "ok"}
Committed == Commits # {}

\* An item fails its check: the product is missing or its stock is too low.
ItemFails(db, item) ==
    \/ item.product_id \notin DOMAIN db
    \/ db[item.product_id].stock < item.quantity
SomeItemFails == \E i \in DOMAIN last.data.items : ItemFails(last.before, last.data.items[i])
SameStock(db1, db2) ==
    /\ DOMAIN db1 = DOMAIN db2
    /\ \A p \in DOMAIN db1 : db1[p].stock = db2[p].stock

\* C1: a reserve in which some item fails its check returns success=false with
\* no reserved items and leaves the stock of every product as it was.
C1_ReserveAllOrNothing ==
    (last.op = "reserve" /\ SomeItemFails) =>
        /\ last.response.status = 200
        /\ last.response.success = FALSE
        /\ last.response.reserved_items = <<>>
        /\ SameStock(products, last.before)

\* A rejected reserve of two items, one of which passed its own check.
C1_Witness ==
    /\ last.op = "reserve"
    /\ Len(last.data.items) = 2
    /\ \E i, j \in DOMAIN last.data.items :
          /\ ItemFails(last.before, last.data.items[i])
          /\ ~ItemFails(last.before, last.data.items[j])
    /\ last.response.success = FALSE

\* C2: the committed stock of every product is never negative.
C2_StockNeverNegative == \A p \in DOMAIN products : products[p].stock >= 0

\* The calls of the concurrent run that returned success=true.
Succeeded == {s \in DOMAIN sess : sess[s].pc = "done" /\ sess[s].response.status = 200
                                   /\ sess[s].response.success}
NoProductTwice(data) ==
    \A i, j \in DOMAIN data.items :
        data.items[i].product_id = data.items[j].product_id => i = j

\* C3: once two concurrent reserve calls, neither naming a product twice, have
\* both returned, the committed stock of every product is its initial stock
\* minus the quantities of the calls that returned success=true, and is >= 0.
C3_ConcurrentReservesDoNotOversell ==
    (/\ DOMAIN sess = Sessions
     /\ \A s \in Sessions : sess[s].pc = "done" /\ NoProductTwice(sess[s].data)) =>
        \A p \in DOMAIN products :
            /\ products[p].stock =
                   db0[p].stock - SumSeq([s \in 1..2 |->
                                            IF s \in Succeeded
                                            THEN QtyOf(sess[s].data.items, p) ELSE 0])
            /\ products[p].stock >= 0

\* C4: a reserve all of whose items pass their check, once committed, returns
\* success=true with no errors and the request's pairs in request order, takes
\* from every product the quantity requested for it and changes nothing else.
C4_AllSucceedCommit ==
    (last.op = "reserve" /\ ~SomeItemFails /\ FailedCommits = {}) =>
        /\ Committed
        /\ last.response.status = 200
        /\ last.response.success = TRUE
        /\ last.response.errors = <<>>
        /\ last.response.reserved_items = last.data.items
        /\ DOMAIN products = DOMAIN last.before
        /\ \A p \in DOMAIN products :
              products[p] = [last.before[p] EXCEPT
                                !.stock = @ - QtyOf(last.data.items, p)]

\* A committed reserve that took 2 from one product and left the other alone.
C4_Witness ==
    /\ last.op = "reserve"
    /\ Committed
    /\ \E p, q \in DOMAIN products :
          /\ products[p].stock = last.before[p].stock - 2
          /\ p # q
          /\ QtyOf(last.data.items, q) = 0

\* The error the code records for a failing item.
ErrorFor(db, item) ==
    IF item.product_id \notin DOMAIN db THEN NotFoundError(item.product_id)
    ELSE InsufficientError(db[item.product_id].title, item.quantity,
                           db[item.product_id].stock)
FailingItems == SelectSeq(last.data.items, LAMBDA item : ItemFails(last.before, item))

\* C5: a rejected reserve returns (status 200, nothing raised) one error for
\* every failing item, in request order: not-found for a missing product,
\* insufficient stock with requested and available quantity otherwise.
C5_ReserveReportsEveryFailure ==
    (last.op = "reserve" /\ SomeItemFails) =>
        /\ last.response.status = 200
        /\ last.response.success = FALSE
        /\ last.response.errors =
              [i \in 1..Len(FailingItems) |-> ErrorFor(last.before, FailingItems[i])]

\* A rejected reserve with a not-found error after an insufficient-stock error.
C5_Witness ==
    /\ last.op = "reserve"
    /\ last.response.status = 200
    /\ Len(last.response.errors) = 2
    /\ last.response.errors[1].kind = "insufficient"
    /\ last.response.errors[2].kind = "not_found"

\* C6: after a successful reserve there is exactly one out-of-stock call for
\* every product of the request whose stock is now 0 and none for any other.
C6_OneOutOfStockPerProduct ==
    (last.op = "reserve" /\ Committed) =>
        \A p \in ProductIds :
            Cardinality(NotifyEvents("out_of_stock", p)) =
                IF /\ p \in DOMAIN products
                   /\ QtyOf(last.data.items, p) > 0
                   /\ products[p].stock = 0
                THEN 1 ELSE 0

\* The items of the last request whose product exists / is missing.
ExistingItems == SelectSeq(last.data.items, LAMBDA item : item.product_id \in DOMAIN last.before)
MissingItems == SelectSeq(last.data.items, LAMBDA item : item.product_id \notin DOMAIN last.before)

\* C7: a committed cancel-reserve restores every item whose product exists
\* (stock raised by the item's quantity, item listed in reserved_items in
\* request order), records one error for every item whose product is
\* missing, and reports success exactly when there is no error.
C7_CancelIsPerItem ==
    (last.op = "cancel_reserve" /\ FailedCommits = {}) =>
        /\ Committed
        /\ last.response.status = 200
        /\ last.response.reserved_items = ExistingItems
        /\ last.response.errors =
              [i \in 1..Len(MissingItems) |-> NotFoundError(MissingItems[i].product_id)]
        /\ last.response.success = (last.response.errors = <<>>)
        /\ DOMAIN products = DOMAIN last.before
        /\ \A p \in DOMAIN products :
              products[p] = [last.before[p] EXCEPT
                                !.stock = @ + QtyOf(last.data.items, p)]

\* A cancel of a missing product followed by an existing one: success=false,
\* the existing one restored.
C7_Witness ==
    /\ last.op = "cancel_reserve"
    /\ Committed
    /\ Len(last.data.items) = 2
    /\ last.data.items[1].product_id \notin DOMAIN last.before
    /\ last.data.items[2].product_id \in DOMAIN last.before
    /\ last.response.success = FALSE
    /\ last.response.reserved_items # <<>>
    /\ products[last.data.items[2].product_id].stock
          > last.before[last.data.items[2].product_id].stock

\* C8: a cancel-reserve makes, after its commit, exactly one back-in-stock
\* call for every existing product of the request whose stock was 0 before
\* the call, and none for a product whose stock was > 0, that is missing or
\* that the request does not name; without the commit it makes none.
C8_BackInStockOnCancel ==
    (last.op = "cancel_reserve") =>
        /\ ~Committed => Notifies = {}
        /\ \A p \in ProductIds :
              /\ (/\ p \in DOMAIN last.before
                  /\ QtyOf(last.data.items, p) > 0
                  /\ last.before[p].stock = 0
                  /\ Committed)
                 => /\ Cardinality(NotifyEvents("back_in_stock", p)) = 1
                    /\ \A i \in NotifyEvents("back_in_stock", p) :
                          \E c \in Commits : c < i
              /\ (\/ p \notin DOMAIN last.before
                  \/ QtyOf(last.data.items, p) = 0
                  \/ last.before[p].stock > 0)
                 => NotifyEvents("back_in_stock", p) = {}

\* A cancel that names a product twice whose stock was 0, and one whose stock was > 0.
C8_Witness ==
    /\ last.op = "cancel_reserve"
    /\ Committed
    /\ \E p \in DOMAIN last.before :
          /\ last.before[p].stock = 0
          /\ Cardinality(NotifyEvents("back_in_stock", p)) = 1
    /\ \E q \in DOMAIN last.before :
          /\ last.before[q].stock > 0
          /\ QtyOf(last.data.items, q) > 0

\* The operations that call the cart webhook.
NotifyingOps == {"update", "delete", "reserve", "cancel_reserve"}

\* The outcome of the commit of the last request.
LastCommit ==
    IF FailedCommits = {} THEN "ok"
    ELSE last.events[CHOOSE i \in FailedCommits : TRUE].outcome

\* The last request served again from the same rows with the given POST outcomes.
Rerun(outcomes) ==
    CASE last.op = "reserve" ->
            reserve(cart_service_url, last.before, last.data, LastCommit, outcomes)
      [] last.op = "cancel_reserve" ->
            cancel_reserve(cart_service_url, last.before, last.data, LastCommit, outcomes)
      [] last.op = "update" ->
            update(cart_service_url, last.before, DOMAIN categories, attrdefs,
                   last.data.product_id, last.data.data, LastCommit, outcomes)
      [] last.op = "delete" ->
            delete(cart_service_url, last.before, last.data.product_id, LastCommit,
                   outcomes)

\* C9: whatever the outcome of the POSTs of update, delete, reserve and
\* cancel-reserve, the response and the committed rows are those of the run
\* in which every POST succeeds; no failure reaches the caller as an error,
\* and every call POSTs at most once.
C9_NotificationFailuresInvisible ==
    (last.op \in NotifyingOps) =>
        /\ last.response = Rerun(AllOk).response
        /\ products = Rerun(AllOk).db
        /\ FailedCommits = {} => last.response.status # 500
        /\ Cardinality(Posts) =
              IF enabled(cart_service_url) THEN Cardinality(Notifies) ELSE 0

\* A request some POST of which failed.
C9_Witness ==
    /\ last.op \in NotifyingOps
    /\ \E i \in Posts : last.events[i].outcome # "ok"
    /\ last.response.status \in {200, 204}

\* C10: every notify call and every POST of a request follows the successful
\* commit of that request; a request that did not commit makes none.
C10_NotificationsPostCommit ==
    (last.op # "none") =>
        /\ \A i \in Notifies \cup Posts : \E c \in Commits : c < i
        /\ ~Committed => Notifies \cup Posts = {}
        /\ products = last.before => Notifies \cup Posts = {}

\* A request that committed and then notified.
C10_Witness ==
    /\ last.op \in NotifyingOps
    /\ Committed
    /\ Notifies # {}
    /\ Posts # {}

\* C11: confirm-reserve answers "confirmed" with the number of items of the
\* request, leaves every stored product as it was and makes no notification,
\* whether or not the products it names exist.
C11_ConfirmReserveIsNoOp ==
    (last.op = "confirm_reserve") =>
        /\ last.response.status = "confirmed"
        /\ last.response.items_count = Len(last.data.items)
        /\ products = last.before
        /\ last.events = <<>>

\* A confirm of two items for one product, one of which names nothing stored
\* or asks for more than the stock.
C11_Witness ==
    /\ last.op = "confirm_reserve"
    /\ Len(last.data.items) = 2
    /\ last.data.items[1].product_id = last.data.items[2].product_id
    /\ \E i \in DOMAIN last.data.items : ItemFails(last.before, last.data.items[i])

\* What the validated request and the store say, for the validator alone.
Matches(key, definition) == Lower(key) = Lower(definition.title)
DefsOf(category_id) ==
    {i \in DOMAIN attrdefs : attrdefs[i].category_id = category_id}
MissingRequired ==
    {i \in DefsOf(last.data.category_id) :
        /\ attrdefs[i].required
        /\ \A k \in DOMAIN last.data.attributes :
              ~Matches(last.data.attributes[k].key, attrdefs[i])}
IllTyped ==
    {k \in DOMAIN last.data.attributes :
        \E i \in DefsOf(last.data.category_id) :
            /\ Matches(last.data.attributes[k].key, attrdefs[i])
            /\ ~TypeCheckOk(last.data.attributes[k].value, attrdefs[i].type)}

Conforms(shape, type) ==
    CASE type \in {"string", "enum"} -> shape = "str"
      [] type = "number" -> shape \in {"int", "float"}
      [] type = "boolean" -> shape = "bool"
      [] type = "array" -> shape = "list"

\* C13: for a key that matches a definition of the category, a type violation
\* is reported exactly when the value's shape is not the declared one.
C13_ValidatorTypeConformance ==
    (last.op = "validate") =>
        \A k \in DOMAIN last.data.attributes :
            \A i \in DefsOf(last.data.category_id) :
                Matches(last.data.attributes[k].key, attrdefs[i]) =>
                    (([field |-> last.data.attributes[k].key, kind |-> "type"]
                          \in Range(last.response.errors))
                     <=> ~Conforms(last.data.attributes[k].value, attrdefs[i].type))

\* The violations the validator reports for the attributes of a create.
CreateViolations ==
    validate_product_attributes(attrdefs, last.data.category_id, last.data.attributes)

\* C14: a create fails with not-found when the category is missing at the
\* check or at the INSERT, fails with the validator's full list when the
\* validator is run on its attributes and reports a violation, stores no row
\* when it fails, and makes no notification whether it fails or succeeds.
C14_CreateNeverWritesPartially ==
    (last.op = "create") =>
        /\ last.data.category_id \notin DOMAIN categories =>
              last.response = NotFound("category", last.data.category_id)
        /\ (\E i \in DOMAIN last.events : last.events[i].outcome = "fk_violation") =>
              last.response = NotFound("category", last.data.category_id)
        /\ (/\ last.data.category_id \in DOMAIN categories
            /\ last.data.attributes # <<>>
            /\ CreateViolations # <<>>) =>
              last.response = ValidationError(CreateViolations)
        /\ last.response.status # 201 => products = last.before
        /\ last.response.status = 201 =>
              /\ DOMAIN products = DOMAIN last.before \cup {last.response.id}
              /\ products[last.response.id] = last.data
              /\ \A p \in DOMAIN last.before : products[p] = last.before[p]
        /\ Notifies \cup Posts = {}

\* A create whose category exists at the check and is gone at the INSERT.
C14_Witness ==
    /\ last.op = "create"
    /\ last.data.category_id \in DOMAIN categories
    /\ \E i \in DOMAIN last.events : last.events[i].outcome = "fk_violation"
    /\ last.response.status = 404

\* The update being looked at: its product before the update, the category
\* its attributes are to be validated against, and what the validator says.
UpdatedBefore == last.before[last.data.product_id]
EffectiveCategory ==
    IF IsSet(last.data.data.category_id) THEN last.data.data.category_id[1]
    ELSE UpdatedBefore.category_id
UpdateViolations ==
    validate_product_attributes(attrdefs, EffectiveCategory, last.data.data.attributes[1])
NewCategoryMissing ==
    /\ IsSet(last.data.data.category_id)
    /\ last.data.data.category_id[1] # UpdatedBefore.category_id
    /\ last.data.data.category_id[1] \notin DOMAIN categories
UpdateOfStoredProduct ==
    /\ last.op = "update"
    /\ last.data.product_id \in DOMAIN last.before

\* C15: an update that carries the attributes field, whatever its value, and
\* whose attributes violate the definitions of the effective category, or
\* whose new category does not exist, fails, leaves the stored product as it
\* was and makes no notification.
C15_UpdateRevalidatesAttributes ==
    (/\ UpdateOfStoredProduct
     /\ IsSet(last.data.data.attributes)
     /\ (UpdateViolations # <<>> \/ NewCategoryMissing)) =>
        /\ last.response.status \in {404, 422}
        /\ products = last.before
        /\ Notifies \cup Posts = {}

\* The committed row of the updated product and what changed in it.
UpdatedAfter == products[last.data.product_id]
ShownChanged ==
    \/ UpdatedAfter.title # UpdatedBefore.title
    \/ UpdatedAfter.price # UpdatedBefore.price
    \/ UpdatedAfter.images # UpdatedBefore.images
WentOutOfStock == UpdatedBefore.stock > 0 /\ UpdatedAfter.stock = 0
CameBackInStock == UpdatedBefore.stock = 0 /\ UpdatedAfter.stock > 0
HowMany(event) == Cardinality(NotifyEvents(event, last.data.product_id))
OneIf(condition) == IF condition THEN 1 ELSE 0

\* C16: after a committed update, product_updated is notified once, with the
\* new title, the new price and the first image or none, exactly when title,
\* price or images changed; out_of_stock once exactly when stock went from
\* > 0 to 0; back_in_stock once exactly when stock went from 0 to > 0; and
\* nothing else is notified.
C16_UpdateNotificationPolicy ==
    (UpdateOfStoredProduct /\ Committed) =>
        /\ HowMany("product_updated") = OneIf(ShownChanged)
        /\ \A i \in NotifyEvents("product_updated", last.data.product_id) :
              last.events[i].payload =
                  [title |-> UpdatedAfter.title, price |-> UpdatedAfter.price,
                   image_url |-> IF UpdatedAfter.images = <<>> THEN <<>>
                                 ELSE <<Head(UpdatedAfter.images)>>]
        /\ HowMany("out_of_stock") = OneIf(WentOutOfStock)
        /\ HowMany("back_in_stock") = OneIf(CameBackInStock)
        /\ Cardinality(Notifies) = OneIf(ShownChanged) + OneIf(WentOutOfStock)
                                       + OneIf(CameBackInStock)
        /\ ~(HowMany("out_of_stock") > 0 /\ HowMany("back_in_stock") > 0)

\* An update that changed the images and emptied the stock: two notifications.
C16_Witness ==
    /\ UpdateOfStoredProduct
    /\ Committed
    /\ UpdatedAfter.images # UpdatedBefore.images
    /\ UpdatedAfter.images # <<>>
    /\ WentOutOfStock
    /\ HowMany("product_updated") = 1
    /\ HowMany("out_of_stock") = 1

\* C17: a delete of an id that is not stored answers not-found, changes
\* nothing and notifies nothing; a committed delete of a stored product
\* removes that row only and is followed by exactly one product_deleted
\* notification for it; a reserve or cancel-reserve that names an id whose
\* row is gone reports the id as not found.
C17_ProductDelete ==
    /\ (last.op = "delete" /\ last.data.product_id \notin DOMAIN last.before) =>
          /\ last.response = NotFound("product", last.data.product_id)
          /\ products = last.before
          /\ last.events = <<>>
    /\ (last.op = "delete" /\ last.data.product_id \in DOMAIN last.before /\ Committed) =>
          /\ DOMAIN products = DOMAIN last.before \ {last.data.product_id}
          /\ \A p \in DOMAIN products : products[p] = last.before[p]
          /\ HowMany("product_deleted") = 1
          /\ Cardinality(Notifies) = 1
          /\ \A i \in Notifies : \E c \in Commits : c < i
    /\ (last.op \in {"reserve", "cancel_reserve"} /\ last.response.status = 200) =>
          \A i \in DOMAIN last.data.items :
              last.data.items[i].product_id \notin DOMAIN last.before =>
                  /\ NotFoundError(last.data.items[i].product_id)
                         \in Range(last.response.errors)
                  /\ last.response.success = FALSE

\* A cancel-reserve that names product 1 after product 1 was deleted.
C17_Witness ==
    /\ last.op = "cancel_reserve"
    /\ 1 \notin DOMAIN last.before
    /\ \E i \in DOMAIN last.data.items : last.data.items[i].product_id = 1
    /\ NotFoundError(1) \in Range(last.response.errors)

\* C18: no two stored categories have the same normalised title.
C18_CategoryTitlesUnique ==
    \A c, d \in DOMAIN categories :
        normalize_title(categories[c].title) = normalize_title(categories[d].title)
            => c = d

\* The category, if any, that already has the title of a create.
CategoryTitleTaken ==
    \E c \in DOMAIN last.before.categories :
        normalize_title(last.before.categories[c].title) = <<last.data.title>>
\* The definition, if any, of the same category with the name of a create.
AttributeNameTaken ==
    \E i \in DOMAIN last.before.attrdefs :
        /\ last.before.attrdefs[i].category_id = last.data.category_id
        /\ last.before.attrdefs[i].title = last.data.title

\* C19: a category create whose title normalises to a stored category's
\* title, and an attribute create whose name is already in the same category,
\* are answered with 409 Conflict and store nothing.
C19_UniquenessViolationsAreConflicts ==
    /\ (last.op = "category_create" /\ last.response.status # 422 /\ CategoryTitleTaken) =>
          /\ last.response.status = 409
          /\ categories = last.before.categories
    /\ (last.op = "attribute_create" /\ AttributeNameTaken) =>
          /\ last.response.status = 409
          /\ attrdefs = last.before.attrdefs

\* A definition of category_id other than attribute_id whose name equals
\* title without regard to case.
NameClash(defs, category_id, title, attribute_id) ==
    \E i \in DOMAIN defs :
        /\ defs[i].category_id = category_id
        /\ Lower(defs[i].title) = Lower(title)
        /\ defs[i].id # attribute_id
UniquenessRejection == last.response.status \in {400, 409}
RenamedDefinition ==
    last.before.attrdefs[CHOOSE i \in DOMAIN last.before.attrdefs :
                            last.before.attrdefs[i].id = last.data.attribute_id]

\* C20: the create of a definition in a stored category, and the rename of a
\* stored definition, are rejected as duplicates exactly when the same
\* category holds another definition with that name, case ignored; and no
\* category ever holds two definitions with names equal but for case.
C20_AttributeNamesUniquePerCategory ==
    /\ \A i, j \in DOMAIN attrdefs :
          (/\ attrdefs[i].category_id = attrdefs[j].category_id
           /\ Lower(attrdefs[i].title) = Lower(attrdefs[j].title)) => i = j
    /\ (/\ last.op = "attribute_create"
        /\ last.data.category_id \in DOMAIN last.before.categories) =>
          (UniquenessRejection <=>
              NameClash(last.before.attrdefs, last.data.category_id, last.data.title, 0))
    /\ (/\ last.op = "attribute_update"
        /\ \E i \in DOMAIN last.before.attrdefs :
              last.before.attrdefs[i].id = last.data.attribute_id
        /\ ~IsSet(last.data.data.category_id)
        /\ IsSet(last.data.data.title)) =>
          (UniquenessRejection <=>
              NameClash(last.before.attrdefs, RenamedDefinition.category_id,
                        last.data.data.title[1], last.data.attribute_id))


\* ---- C21, C22: the public HTTP surface
StoreBefore == last.before
StoreAfter == [categories |-> categories, attrdefs |-> attrdefs, products |-> products]

\* C21: deleting a stored category succeeds whether or not it has products or
\* attribute definitions; afterwards the store holds no definition and no
\* product of that category, and every other row is as before.
C21_CategoryDeleteCascades ==
    (/\ last.op = "delete_category"
     /\ last.commit = "ok"
     /\ last.data.category_id \in DOMAIN StoreBefore.categories)
    => LET c == last.data.category_id
       IN  /\ last.response.status = 204
           /\ c \notin DOMAIN categories
           /\ \A i \in DOMAIN attrdefs : attrdefs[i].category_id # c
           /\ \A p \in DOMAIN products : products[p].category_id # c
           /\ \A k \in DOMAIN StoreBefore.categories \ {c} :
                k \in DOMAIN categories /\ categories[k] = StoreBefore.categories[k]
           /\ attrdefs = SelectSeq(StoreBefore.attrdefs, LAMBDA d : d.category_id # c)
           /\ \A p \in DOMAIN StoreBefore.products :
                StoreBefore.products[p].category_id # c
                    => p \in DOMAIN products /\ products[p] = StoreBefore.products[p]

\* The part of C21 that the model keeps: a stored category without products is
\* deleted together with its definitions.
C21_DeleteOfEmptyCategory ==
    (/\ last.op = "delete_category"
     /\ last.commit = "ok"
     /\ last.data.category_id \in DOMAIN StoreBefore.categories
     /\ \A p \in DOMAIN StoreBefore.products :
            StoreBefore.products[p].category_id # last.data.category_id)
    => /\ last.response.status = 204
       /\ last.data.category_id \notin DOMAIN categories
       /\ \A i \in DOMAIN attrdefs : attrdefs[i].category_id # last.data.category_id

\* C22: a write of the HTTP surface is answered 403 and leaves the store as it
\* was when X-User-Role is present with a value other than "admin"; it is not
\* answered 403 when the header is absent or "admin"; a read is never
\* answered 403.
HttpWrites ==
    {"create_product", "update_product", "delete_product",
     "create_category", "update_category", "delete_category",
     "create_attribute", "update_attribute", "delete_attribute"}
HttpReads == {"get_product"}
C22_AccessGate ==
    /\ (last.op \in HttpWrites /\ last.role \notin {<<>>, <<"admin">>})
        => (last.response.status = 403 /\ StoreAfter = StoreBefore)
    /\ (last.op \in HttpWrites /\ last.role \in {<<>>, <<"admin">>})
        => last.response.status # 403
    /\ last.op \in HttpReads => last.response.status # 403

\* The part of C22 that the model keeps: the gate of the product routes.
C22_ProductRoutesGated ==
    /\ (last.op \in {"create_product", "update_product", "delete_product"}
        /\ last.role \notin {<<>>, <<"admin">>})
        => (last.response.status = 403 /\ StoreAfter = StoreBefore)
    /\ (last.op \in {"create_product", "update_product", "delete_product", "get_product"}
        /\ last.role \in {<<>>, <<"admin">>})
        => last.response.status # 403

\* ---- C23: title normalisation
Blank(title) == \A i \in DOMAIN title : title[i] = " "
Trimmed(title) == title # <<>> /\ title[1] # " " /\ title[Len(title)] # " "

\* C23: for every title that is not blank, normalising the normalised title
\* gives the normalised title again, which has no leading and no trailing
\* blank; the normaliser of the category schema is idempotent too and gives
\* the same result as the shared one.
C23_NormalizeIdempotent ==
    (last.op = "normalize_title" /\ ~Blank(last.data))
    => /\ last.response.shared # <<>>
       /\ last.response.shared_twice = last.response.shared
       /\ Trimmed(last.response.shared[1])
       /\ last.response.category = last.response.shared
       /\ last.response.category_twice = last.response.category

\* A title with a leading blank and a lower-case first letter was normalised.
C23_Witness ==
    /\ last.op = "normalize_title"
    /\ ~Blank(last.data)
    /\ last.data[1] = " "
    /\ last.response.shared # <<>>
    /\ last.response.shared[1] # Strip(last.data)
    /\ last.response.shared_twice = last.response.shared

\* ---- C24, C30: required attributes and conformance of stored products
\* C24: a create in a stored category whose attribute map, empty or not,
\* lacks a required definition of that category is answered with the
\* validation error and stores nothing; no created product lacks a required
\* attribute of its category.
C24_RequiredAttributesOnCreate ==
    (last.op = "create" /\ last.data.category_id \in DOMAIN categories
     /\ MissingRequired # {})
    => /\ last.response = ValidationError(CreateViolations)
       /\ products = last.before

\* The part of C24 that the model keeps: the same for a map that is not empty.
C24_RequiredAttributesOnNonEmptyCreate ==
    (last.op = "create" /\ last.data.category_id \in DOMAIN categories
     /\ MissingRequired # {} /\ last.data.attributes # <<>>)
    => /\ last.response = ValidationError(CreateViolations)
       /\ products = last.before

\* The stored product conforms to the definitions of its category.
ConformsToCategory(product) ==
    validate_product_attributes(attrdefs, product.category_id, product.attributes) = <<>>

\* C30: a product written by a create conforms to its category, and so does a
\* product that conformed and was written by an update.
C30_StoredProductsConform ==
    /\ (last.op = "create" /\ last.response.status = 201)
        => ConformsToCategory(products[last.response.id])
    /\ (UpdateOfStoredProduct /\ last.response.status = 200
        /\ ConformsToCategory(UpdatedBefore))
        => ConformsToCategory(products[last.data.product_id])

\* The part of C30 that the model keeps: a write that carries a non-empty
\* attribute map stores a conforming product.
C30_ValidatedWritesConform ==
    /\ (last.op = "create" /\ last.response.status = 201 /\ last.data.attributes # <<>>)
        => ConformsToCategory(products[last.response.id])
    /\ (UpdateOfStoredProduct /\ last.response.status = 200
        /\ IsSet(last.data.data.attributes) /\ last.data.data.attributes[1] # <<>>)
        => ConformsToCategory(products[last.data.product_id])

\* The last sentence of C30 alone: a conforming product that an accepted
\* update moves to another category, without attributes, conforms afterwards.
C30_CategoryMoveKeepsConformance ==
    (UpdateOfStoredProduct /\ last.response.status = 200
     /\ ConformsToCategory(UpdatedBefore)
     /\ IsSet(last.data.data.category_id) /\ ~IsSet(last.data.data.attributes))
    => ConformsToCategory(products[last.data.product_id])

\* ---- C25, C27: reservation round trips
\* The products an answered request notified the cart about with this event.
NotifiedProducts(request, event) ==
    {request.events[i].product_id :
        i \in {j \in DOMAIN request.events :
                 request.events[j].type = "notify" /\ request.events[j].event = event}}
CancelAfterReserve ==
    /\ last.op = "cancel_reserve"
    /\ sess.op = "reserve"
    /\ sess.data = last.data
    /\ sess.response.success

\* C25: a cancel with the request of the successful reserve answered just
\* before it succeeds, puts every stock back to its value before the reserve,
\* and announces back-in-stock for the products the reserve announced
\* out-of-stock for.
C25_ReserveCancelRoundTrip ==
    CancelAfterReserve
    => /\ last.response.success
       /\ \A p \in DOMAIN products : products[p].stock = sess.before[p].stock
       /\ NotifiedProducts(last, "back_in_stock") = NotifiedProducts(sess, "out_of_stock")

\* The part of C25 that the model keeps: the cancel succeeds and restores the
\* stock; the notifications agree when no product is named twice.
C25_RoundTripRestoresStock ==
    CancelAfterReserve
    => /\ last.response.success
       /\ \A p \in DOMAIN products : products[p].stock = sess.before[p].stock
       /\ NoProductTwice(last.data) =>
            NotifiedProducts(last, "back_in_stock") = NotifiedProducts(sess, "out_of_stock")

\* C27: whatever sequence of reserve, confirm and cancel is issued, no stock
\* exceeds its value at the start.
C27_CancelNeverExceedsReserved ==
    \A p \in DOMAIN products : products[p].stock <= db0[p].stock

\* ---- C26: the internal router against the service
\* What the method of ProductService answers to the last request of the
\* router, from the same rows and with the same commit and POST outcomes.
ServiceRun ==
    CASE last.op = "reserve_products" ->
            reserve(cart_service_url, last.before, last.data, last.commit, last.outcomes)
      [] last.op = "confirm_reserve" ->
            [db |-> last.before, response |-> confirm_reserve(last.data),
             events |-> <<>>]
      [] last.op = "cancel_reserve" ->
            cancel_reserve(cart_service_url, last.before, last.data, last.commit,
                           last.outcomes)

\* C26: for every store and request, each handler of the internal router gives
\* the response, the committed rows and the sequence of commit, notification
\* calls and POSTs that the method of ProductService of the same name gives.
C26_InternalRouterMatchesService ==
    last.op \in {"reserve_products", "confirm_reserve", "cancel_reserve"}
    => /\ last.response = ServiceRun.response
       /\ products = ServiceRun.db
       /\ last.events = ServiceRun.events

\* The router's cancel of a request naming a product twice restored a stock
\* from 0 and announced it.
C26_Witness ==
    /\ last.op = "cancel_reserve"
    /\ last.response.status = 200
    /\ ~NoProductTwice(last.data)
    /\ \E i \in DOMAIN last.events :
         last.events[i].type = "notify" /\ last.events[i].event = "back_in_stock"
    /\ products # last.before

\* ---- C28, C29: concurrent requests on one stock
AllDone == \A s \in Sessions : sess[s].pc = "done"
BothCommitted ==
    \A s \in Sessions : \E i \in DOMAIN last :
        last[i].type = "commit" /\ last[i].session = s
SetsStock(request) == request.op = "update" /\ IsSet(request.data[1].stock)
\* What a request adds to the stock.
StockDelta(request) ==
    IF request.op = "reserve" THEN 0 - request.quantity
    ELSE IF request.op = "cancel_reserve" THEN request.quantity
    ELSE 0

\* C28: when a reserve runs next to a cancel, or next to an update that does
\* not set the stock, and both commit, the final stock is the initial stock
\* minus the reserved quantity plus the cancelled one.
C28_NoLostStockUpdate ==
    (/\ AllDone
     /\ BothCommitted
     /\ \E s \in Sessions : sess[s].request.op = "reserve"
     /\ \E s \in Sessions : sess[s].request.op # "reserve"
     /\ \A s \in Sessions : ~SetsStock(sess[s].request))
    => products[1].stock =
           db0[1].stock + StockDelta(sess[1].request) + StockDelta(sess[2].request)

\* The part of C28 that the model keeps: a reserve next to an update that
\* does not set the stock.
C28_ReserveNextToUpdate ==
    (/\ AllDone
     /\ BothCommitted
     /\ \E s \in Sessions : sess[s].request.op = "reserve"
     /\ \E s \in Sessions : sess[s].request.op = "update" /\ ~SetsStock(sess[s].request))
    => products[1].stock =
           db0[1].stock + StockDelta(sess[1].request) + StockDelta(sess[2].request)

StockEvents == {"out_of_stock", "back_in_stock"}
StockNotifications ==
    SelectSeq(last, LAMBDA e : e.type = "notify" /\ e.event \in StockEvents)
CommitIndex(s) == CHOOSE i \in DOMAIN last : last[i].type = "commit" /\ last[i].session = s

\* C29: once both requests are finished, the stock notifications of two
\* requests that committed appear in the order of their commits, and the
\* last stock notification agrees with the committed stock.
C29_NotificationsFollowCommitOrder ==
    AllDone =>
       /\ \A i, j \in DOMAIN last :
            (/\ last[i].type = "notify" /\ last[i].event \in StockEvents
             /\ last[j].type = "notify" /\ last[j].event \in StockEvents
             /\ last[i].session # last[j].session
             /\ CommitIndex(last[i].session) < CommitIndex(last[j].session))
            => i < j
       /\ StockNotifications # <<>> =>
            LET final == StockNotifications[Len(StockNotifications)]
            IN  (final.event = "out_of_stock") <=> (products[1].stock = 0)

\* The part of C29 that the model keeps: a request issues its notifications
\* after its own commit.
C29_NotificationsAfterOwnCommit ==
    \A i \in DOMAIN last :
        last[i].type = "notify" => CommitIndex(last[i].session) < i
====
